---- MODULE Spec2Model ----
(***************************************************************************)
(* Model of the transaction-construction engine of btc_wallet_app:         *)
(*   wallet/tx_builder.py   btc_to_satoshi, estimate_transaction_size,     *)
(*                          select_utxos_for_amount, create_raw_transaction*)
(*   utils/fee_estimator.py estimate_transaction_size_bytes,               *)
(*                          estimate_fee_details                           *)
(*                                                                         *)
(* A Decimal BTC amount is represented as an integer number of units of    *)
(* 1/SubSat satoshi, so that amounts that are not a whole number of        *)
(* satoshis exist and btc_to_satoshi really truncates.                     *)
(***************************************************************************)
EXTENDS Integers, Sequences, FiniteSets, TLC

\* ------------------------------------------------------------------------
\* Bounds of the model
\* ------------------------------------------------------------------------
MaxUtxos == 2
MaxRate == 2
SubSat == 10
MaxCount == 254

\* ------------------------------------------------------------------------
\* Program constants
\* ------------------------------------------------------------------------
MIN_CHANGE_SATS == 546
DEFAULT_FEE_SATS_PER_BYTE == 10
CONFIG_NETWORK == "mainnet"

REQUIRED_UTXO_KEYS == {"txid", "vout", "amount", "scriptPubKey"}
REQUIRED_SPEND_KEYS == {"txid", "vout", "satoshi_amount", "scriptPubKey"}
SUPPORTED_NETWORKS == {"bitcoin", "testnet", "regtest"}

\* ------------------------------------------------------------------------
\* Helpers
\* ------------------------------------------------------------------------
\* Python int(Decimal): truncation toward zero.
TruncDiv(a, b) == IF a >= 0 THEN a \div b ELSE -((-a) \div b)

\* Decimal literal: `sats` whole satoshis and `frac` units below one satoshi.
BTC(sats, frac) == sats * SubSat + frac

\* Faulty variant: rounds to the nearest satoshi instead of truncating.
btc_to_satoshi_RoundHalfUp(btc_amount) == TruncDiv(2 * btc_amount + SubSat, 2 * SubSat)

\* int(btc_amount * SATOSHIS_PER_BTC).  The Decimal d stands for
\* d / (SubSat * 10^8) BTC, so d * 10^8 BTC-satoshis is d / SubSat.
btc_to_satoshi(btc_amount) == TruncDiv(btc_amount, SubSat)

RECURSIVE SumSats(_)
SumSats(s) == IF s = <<>> THEN 0 ELSE s[1].satoshi_amount + SumSats(Tail(s))

\* ------------------------------------------------------------------------
\* tx_builder.estimate_transaction_size
\* ------------------------------------------------------------------------
\* Faulty variant: outputs sized like the inputs' type (31 bytes for segwit).
estimate_transaction_size_SegwitOutputs(num_inputs, num_outputs, input_type, output_type) ==
    LET input_size == IF input_type = "p2wpkh" THEN 68
                      ELSE IF input_type = "p2pkh" THEN 148
                      ELSE 100
        output_size == IF input_type = "p2wpkh" THEN 31 ELSE 34
        overhead == 10
    IN (num_inputs * input_size) + (num_outputs * output_size) + overhead

estimate_transaction_size(num_inputs, num_outputs, input_type, output_type) ==
    LET input_size == IF input_type = "p2wpkh" THEN 68
                      ELSE IF input_type = "p2pkh" THEN 148
                      ELSE 100
        output_size == 34
        overhead == 10
    IN (num_inputs * input_size) + (num_outputs * output_size) + overhead

\* ------------------------------------------------------------------------
\* fee_estimator.estimate_transaction_size_bytes
\* ------------------------------------------------------------------------
\* Faulty variant: the varint boundary off by one (>= 252 instead of > 252).
OverheadVbytes_OffByOne(num_inputs, num_outputs) ==
    10 + (IF num_inputs >= 252 THEN 2 ELSE 0) + (IF num_outputs >= 252 THEN 2 ELSE 0)

\* Lines 69-71: 10 bytes, and 2 more for each count whose varint grows.
OverheadVbytes(num_inputs, num_outputs) ==
    10 + (IF num_inputs > 252 THEN 2 ELSE 0) + (IF num_outputs > 252 THEN 2 ELSE 0)

\* Faulty variant: the outputs' bytes subtracted instead of added.
estimate_transaction_size_bytes_OutputsSubtracted(num_inputs, num_outputs, input_type, output_type) ==
    LET input_vbytes == IF input_type = "p2wpkh" THEN 68
                        ELSE IF input_type = "p2pkh" THEN 148
                        ELSE 100
        output_vbytes == IF output_type = "p2pkh" THEN 34
                         ELSE IF output_type = "p2wpkh" THEN 31
                         ELSE IF output_type = "p2sh" THEN 32
                         ELSE 34
        overhead_vbytes == OverheadVbytes(num_inputs, num_outputs)
    IN (num_inputs * input_vbytes) - (num_outputs * output_vbytes) + overhead_vbytes

estimate_transaction_size_bytes(num_inputs, num_outputs, input_type, output_type) ==
    LET input_vbytes == IF input_type = "p2wpkh" THEN 68
                        ELSE IF input_type = "p2pkh" THEN 148
                        ELSE 100
        output_vbytes == IF output_type = "p2pkh" THEN 34
                         ELSE IF output_type = "p2wpkh" THEN 31
                         ELSE IF output_type = "p2sh" THEN 32
                         ELSE 34
        overhead_vbytes == OverheadVbytes(num_inputs, num_outputs)
    IN (num_inputs * input_vbytes) + (num_outputs * output_vbytes) + overhead_vbytes

\* ------------------------------------------------------------------------
\* fee_estimator.estimate_fee_details
\* ------------------------------------------------------------------------
\* Faulty variant: `custom or default`, a supplied rate of 0 falls back to the default.
FeeRateToUse_Falsy(custom_fee_rate_sats_per_vbyte) ==
    IF custom_fee_rate_sats_per_vbyte # <<>> /\ custom_fee_rate_sats_per_vbyte[1] # 0
    THEN custom_fee_rate_sats_per_vbyte[1]
    ELSE DEFAULT_FEE_SATS_PER_BYTE

\* Lines 86-87: custom rate if it is not None, else the configured default.
FeeRateToUse(custom_fee_rate_sats_per_vbyte) ==
    IF custom_fee_rate_sats_per_vbyte # <<>>
    THEN custom_fee_rate_sats_per_vbyte[1]
    ELSE DEFAULT_FEE_SATS_PER_BYTE

estimate_fee_details(num_inputs, num_outputs, input_type, output_type, custom_fee_rate_sats_per_vbyte) ==
    LET estimated_size_vbytes ==
            estimate_transaction_size_bytes(num_inputs, num_outputs,
                                            input_type, output_type)
        fee_rate_to_use == FeeRateToUse(custom_fee_rate_sats_per_vbyte)
        total_fee_sats == estimated_size_vbytes * fee_rate_to_use
    IN [estimated_size_vbytes |-> estimated_size_vbytes,
        fee_rate_sats_per_vbyte |-> fee_rate_to_use,
        total_fee_sats |-> total_fee_sats]

\* ------------------------------------------------------------------------
\* tx_builder.select_utxos_for_amount
\* ------------------------------------------------------------------------
\* A failed call: the exception class raised and the raise site.
Raised(exc, reason, detail) ==
    [raised |-> exc, reason |-> reason, detail |-> detail]

\* Faulty variant: reports the last UTXO lacking a key instead of the first.
FirstMissing_Last(us, required) ==
    IF \E i \in 1..Len(us) : ~(required \subseteq us[i].keys)
    THEN CHOOSE i \in 1..Len(us) :
            /\ ~(required \subseteq us[i].keys)
            /\ \A j \in (i + 1)..Len(us) : required \subseteq us[j].keys
    ELSE 0

\* Index of the first UTXO lacking one of `required`, 0 when there is none.
FirstMissing(us, required) ==
    IF \E i \in 1..Len(us) : ~(required \subseteq us[i].keys)
    THEN CHOOSE i \in 1..Len(us) :
            /\ ~(required \subseteq us[i].keys)
            /\ \A j \in 1..(i - 1) : required \subseteq us[j].keys
    ELSE 0

\* u.copy() with u_copy['satoshi_amount'] = btc_to_satoshi(u['amount'])
WithSats(u) ==
    [txid |-> u.txid, amount |-> u.amount,
     keys |-> u.keys \cup {"satoshi_amount"},
     satoshi_amount |-> btc_to_satoshi(u.amount)]

\* The dicts in memory while select_utxos_for_amount validates and annotates
\* (lines 85-92).  heap[r] is the dict behind reference r; the caller's list
\* holds the references 1..Len(utxos).  u.copy() allocates a new dict with
\* the same entries, and the satoshi_amount entry is written into that one.
\* Faulty variant: no copy is made, u_copy is the caller's dict itself.
DictCopy_Alias(heap, ref) == [heap |-> heap, ref |-> ref]
DictCopy(heap, ref) == [heap |-> Append(heap, heap[ref]), ref |-> Len(heap) + 1]

SetSatoshiAmount(heap, ref) == [heap EXCEPT ![ref] = WithSats(heap[ref])]

\* The loop of lines 87-92 from index i on; it ends at the end of the list
\* or at the first dict lacking a required key (the raise of line 89).
RECURSIVE AnnotateLoop(_, _, _, _)
AnnotateLoop(heap, i, n, utxos_with_sats) ==
    IF i > n \/ REQUIRED_UTXO_KEYS \ heap[i].keys # {}
    THEN [heap |-> heap, utxos_with_sats |-> utxos_with_sats]
    ELSE LET c == DictCopy(heap, i)
         IN AnnotateLoop(SetSatoshiAmount(c.heap, c.ref), i + 1, n,
                         Append(utxos_with_sats, c.ref))

\* The caller's list as the call leaves it.  utxos_with_sats is a list of its
\* own (line 86) and the sort of line 95 reorders that one; nothing is
\* appended to or removed from the caller's list.
CallerUtxosAfterSelect(utxos) ==
    IF utxos = <<>> THEN utxos
    ELSE SubSeq(AnnotateLoop(utxos, 1, Len(utxos), <<>>).heap, 1, Len(utxos))

\* list.sort(key = satoshi_amount, reverse = True): descending and stable,
\* equal keys keep their original relative order.
\* Faulty variant: an unstable sort, a later UTXO goes before its equals.
RECURSIVE InsertDesc_TiesReversed(_, _)
InsertDesc_TiesReversed(sorted, u) ==
    IF sorted = <<>> THEN <<u>>
    ELSE IF sorted[1].satoshi_amount > u.satoshi_amount
         THEN <<sorted[1]>> \o InsertDesc_TiesReversed(Tail(sorted), u)
         ELSE <<u>> \o sorted

RECURSIVE InsertDesc(_, _)
InsertDesc(sorted, u) ==
    IF sorted = <<>> THEN <<u>>
    ELSE IF sorted[1].satoshi_amount >= u.satoshi_amount
         THEN <<sorted[1]>> \o InsertDesc(Tail(sorted), u)
         ELSE <<u>> \o sorted

RECURSIVE SortDesc(_)
SortDesc(us) ==
    IF us = <<>> THEN <<>>
    ELSE InsertDesc(SortDesc(SubSeq(us, 1, Len(us) - 1)), us[Len(us)])

\* The selection loop, lines 102-114: take the UTXOs in sorted order, after
\* each recompute the fee for two outputs, stop when target + fee is covered.
\* Yields the number of UTXOs selected.
RECURSIVE SelectLoop(_, _, _, _, _, _, _)
SelectLoop(sorted, n, total, target, rate, input_type, output_type) ==
    LET total_n == total + sorted[n].satoshi_amount
        fee_n == estimate_transaction_size(n, 2, input_type, output_type) * rate
    IN IF total_n >= target + fee_n \/ n = Len(sorted)
       THEN n
       ELSE SelectLoop(sorted, n + 1, total_n, target, rate, input_type, output_type)

\* Lines 118-123: two outputs when change will be produced, else one.
FinalOutputCount(total_selected_sats, target_amount_sats, estimated_fee_sats) ==
    IF total_selected_sats > target_amount_sats + estimated_fee_sats THEN 2
    ELSE 1

\* Faulty variant: the final check compares with the target alone, without the fee.
InsufficientSelection_IgnoresFee(total_selected_sats, target_amount_sats, final_fee_sats) ==
    total_selected_sats < target_amount_sats

\* Line 128: the selection does not cover the target plus the final fee.
InsufficientSelection(total_selected_sats, target_amount_sats, final_fee_sats) ==
    total_selected_sats < target_amount_sats + final_fee_sats

select_utxos_for_amount(utxos, target_amount_sats, fee_rate_sats_per_byte, input_address_type, output_address_type) ==
    IF utxos = <<>>
    THEN Raised("ValueError", "NoUtxos", 0)
    ELSE IF FirstMissing(utxos, REQUIRED_UTXO_KEYS) # 0
    THEN Raised("ValueError", "MalformedUtxo",
                FirstMissing(utxos, REQUIRED_UTXO_KEYS) - 1)  \* enumerate() counts from 0
    ELSE
    LET utxos_with_sats == SortDesc([i \in 1..Len(utxos) |-> WithSats(utxos[i])])
        n == SelectLoop(utxos_with_sats, 1, 0, target_amount_sats,
                        fee_rate_sats_per_byte, input_address_type,
                        output_address_type)
        selected_utxos_list == SubSeq(utxos_with_sats, 1, n)
        total_selected_sats == SumSats(selected_utxos_list)
        estimated_fee_sats ==
            estimate_transaction_size(n, 2, input_address_type, output_address_type)
                * fee_rate_sats_per_byte
        num_outputs_final ==
            FinalOutputCount(total_selected_sats, target_amount_sats, estimated_fee_sats)
        final_estimated_fee_sats ==
            estimate_transaction_size(n, num_outputs_final, input_address_type,
                                      output_address_type) * fee_rate_sats_per_byte
    IN IF InsufficientSelection(total_selected_sats, target_amount_sats,
                                final_estimated_fee_sats)
       THEN Raised("ValueError", "InsufficientFunds",
                   target_amount_sats + final_estimated_fee_sats - total_selected_sats)
       ELSE [raised |-> "None", reason |-> "returned",
             selected |-> selected_utxos_list,
             total |-> total_selected_sats, fee |-> final_estimated_fee_sats]

\* ------------------------------------------------------------------------
\* The external transaction codec (bitcoinlib Address / Transaction), as
\* create_raw_transaction uses it.  An address is modelled by its role and
\* the network its encoding belongs to ("malformed" when it parses on none).
\* ------------------------------------------------------------------------
\* Faulty variant: addresses are not validated against the network.
AddressValid_NotChecked(addr, network_name) == TRUE

\* Address(addr, network = network_name) succeeds.
AddressValid(addr, network_name) == addr.network = network_name

\* tx.add_output raises ScriptError when no script can be built for the
\* address on the transaction's network.
AddOutputScriptError(addr, network_name) == ~AddressValid(addr, network_name)

RECURSIVE SumValues(_)
SumValues(s) == IF s = <<>> THEN 0 ELSE s[1].value + SumValues(Tail(s))

\* network_name is None: taken from config.NETWORK, lines 158-163.
ResolveNetwork(network_name) ==
    IF network_name # "None" THEN network_name
    ELSE IF CONFIG_NETWORK = "testnet" THEN "testnet"
    ELSE IF CONFIG_NETWORK = "mainnet" THEN "bitcoin"
    ELSE IF CONFIG_NETWORK = "regtest" THEN "regtest"
    ELSE "testnet"

\* ------------------------------------------------------------------------
\* tx_builder.create_raw_transaction
\* ------------------------------------------------------------------------
\* Lines 209-214: the fee estimate, for two outputs when the inputs exceed
\* the target and for one output otherwise.
\* Faulty variant: the fee is always the one for a single output.
TentativeFee_OneOutput(total_input_sats, target_sats, num_inputs, rate, input_type) ==
    estimate_transaction_size(num_inputs, 1, input_type, "p2pkh") * rate

TentativeFee(total_input_sats, target_sats, num_inputs, rate, input_type) ==
    LET potential_change_sats == total_input_sats - target_sats
    IN estimate_transaction_size(num_inputs,
                                 IF potential_change_sats > 0 THEN 2 ELSE 1,
                                 input_type, "p2pkh") * rate

\* Faulty variant: no dust threshold, any positive change gets an output.
ChangeOutputAdded_NoDustLimit(change_sats, change_address, network) ==
    /\ change_sats > 0
    /\ ~AddOutputScriptError(change_address, network)

\* Lines 228-240: a change output is added when the change reaches
\* MIN_CHANGE_SATS and the codec builds the output.
ChangeOutputAdded(change_sats, change_address, network) ==
    /\ change_sats > 0
    /\ change_sats >= MIN_CHANGE_SATS
    /\ ~AddOutputScriptError(change_address, network)

\* Faulty variant: sub-dust change is dropped without being added to the fee.
CalculatedFee_DustDropped(estimated_fee, change_sats, adds_change) ==
    estimated_fee

\* Lines 241-250: positive change that got no output is added to the fee.
CalculatedFee(estimated_fee, change_sats, adds_change) ==
    IF change_sats > 0 /\ ~adds_change
    THEN estimated_fee + change_sats
    ELSE estimated_fee

\* A failed create_raw_transaction: the exception, the raise site and how
\* many inputs and outputs the Transaction object held when it was raised
\* (none before line 195 constructs it).
RaisedInCreate(exc, reason, detail, tx_inputs, tx_outputs) ==
    [raised |-> exc, reason |-> reason, detail |-> detail,
     tx_inputs |-> tx_inputs, tx_outputs |-> tx_outputs]

\* Lines 197-266, after validation: sum the inputs, estimate the fee, add
\* the recipient output, then the change output or fold the dust.
AssembleTransaction(recipient_address, amount_btc, fee_rate_sats_per_byte, utxos_to_spend, change_address, network, input_address_type) ==
    LET inputs == [i \in 1..Len(utxos_to_spend) |->
                      [txid |-> utxos_to_spend[i].txid,
                       value |-> utxos_to_spend[i].satoshi_amount]]
        total_input_sats == SumSats(utxos_to_spend)
        target_sats == btc_to_satoshi(amount_btc)
        estimated_fee == TentativeFee(total_input_sats, target_sats,
                                      Len(utxos_to_spend), fee_rate_sats_per_byte,
                                      input_address_type)
        recipient_output == [value |-> target_sats, address |-> recipient_address]
        change_sats == total_input_sats - target_sats - estimated_fee
        adds_change == ChangeOutputAdded(change_sats, change_address, network)
        outputs == IF adds_change
                   THEN <<recipient_output,
                          [value |-> change_sats, address |-> change_address]>>
                   ELSE <<recipient_output>>
        calculated_fee_sats == CalculatedFee(estimated_fee, change_sats, adds_change)
        total_out_sats == SumValues(outputs)
    IN IF total_input_sats < target_sats + estimated_fee
       THEN RaisedInCreate("ValueError", "InsufficientFunds",
                           target_sats + estimated_fee - total_input_sats,
                           Len(inputs), 0)
       ELSE IF change_sats < 0
       THEN RaisedInCreate("ValueError", "NegativeChange", change_sats, Len(inputs), 1)
       ELSE IF total_input_sats < total_out_sats + calculated_fee_sats
       THEN RaisedInCreate("ValueError", "Mismatch",
                           total_out_sats + calculated_fee_sats - total_input_sats,
                           Len(inputs), Len(outputs))
       ELSE [raised |-> "None", reason |-> "returned",
             tx |-> [inputs |-> inputs, outputs |-> outputs, network |-> network],
             fee |-> calculated_fee_sats]

create_raw_transaction(recipient_address, amount_btc, fee_rate_sats_per_byte, utxos_to_spend, change_address, network_name, input_address_type) ==
    LET network == ResolveNetwork(network_name)
    IN IF network \notin SUPPORTED_NETWORKS
       THEN RaisedInCreate("ValueError", "UnsupportedNetwork", 0, 0, 0)
       ELSE IF utxos_to_spend = <<>>
       THEN RaisedInCreate("ValueError", "NoUtxos", 0, 0, 0)
       ELSE IF FirstMissing(utxos_to_spend, REQUIRED_SPEND_KEYS) # 0
       THEN RaisedInCreate("ValueError", "MalformedUtxo", 0, 0, 0)
       ELSE IF ~(AddressValid(recipient_address, network)
                 /\ AddressValid(change_address, network))
       THEN RaisedInCreate("ValueError", "InvalidAddress", 0, 0, 0)
       ELSE AssembleTransaction(recipient_address, amount_btc,
                                fee_rate_sats_per_byte, utxos_to_spend,
                                change_address, network, input_address_type)

\* ------------------------------------------------------------------------
\* key_manager: key generation and import.  The external key codec
\* (bitcoinlib Key) is modelled by what key_manager relies on: a private key
\* is an identifier, its WIF encoding names the key and carries the version
\* prefix of its network (testnet and regtest share one), and Key(...)
\* raises for a network it does not know or a WIF that is malformed or
\* carries another network's prefix.
\* ------------------------------------------------------------------------
KNOWN_NETWORKS == {"bitcoin", "testnet", "regtest"}

WifPrefix(network) == IF network = "bitcoin" THEN "80" ELSE "ef"
Wif(key, network) == [key |-> key, prefix |-> WifPrefix(network), wellformed |-> TRUE]
MalformedWif == [key |-> 0, prefix |-> "none", wellformed |-> FALSE]

\* Key(wif_key, network = network_name) succeeds.
WifDecodes(wif_key, network_name) ==
    /\ network_name \in KNOWN_NETWORKS
    /\ wif_key.wellformed
    /\ wif_key.prefix = WifPrefix(network_name)

\* Faulty variant: every address type gets an address, none is rejected.
AddressTypeSupported_Any(address_type) == TRUE

\* Lines 42-49 and 76-81: the if / elif / else over address_type.
AddressTypeSupported(address_type) == address_type \in {"p2pkh", "p2wpkh"}

\* The dictionary both functions return (lines 51-58, 83-88).
KeyDict(wif, key, network_name, address_type) ==
    [wif |-> wif,
     address |-> <<key, network_name, address_type>>,
     private_key_hex |-> <<"private", key>>,
     public_key_hex |-> <<"public", key>>,
     network |-> network_name,
     address_type |-> address_type]

\* `key` is the private key Key(network = network_name) draws.
generate_wif_key(network_name, address_type, key) ==
    IF network_name \notin KNOWN_NETWORKS
    THEN Raised("NetworkError", "UnknownNetwork", 0)   \* Key() raises, not caught
    ELSE IF ~AddressTypeSupported(address_type)
    THEN Raised("ValueError", "UnsupportedAddressType", 0)
    ELSE [raised |-> "None", reason |-> "returned",
          data |-> KeyDict(Wif(key, network_name), key, network_name, address_type)]

import_wif_key(wif_key, network_name, address_type) ==
    IF ~WifDecodes(wif_key, network_name)
    THEN Raised("ValueError", "InvalidKeyEncoding", 0)
    ELSE IF ~AddressTypeSupported(address_type)
    THEN Raised("ValueError", "UnsupportedAddressType", 0)
    ELSE [raised |-> "None", reason |-> "returned",
          data |-> KeyDict(wif_key, wif_key.key, network_name, address_type)]

\* ------------------------------------------------------------------------
\* key_manager: the encrypted container.  Bytes are symbolic: a byte knows
\* the string it was written in (src), its position there, and how it now
\* differs from what was written (alt): "as_written", "same_bits" (another
\* byte that base64-decodes to the same bits) or "other_bits".  The
\* cryptography is ideal: PBKDF2 is injective in (password, salt), a Fernet
\* token verifies only under the key that made it, and every draw of
\* os.urandom is a value not drawn before.
\* ------------------------------------------------------------------------
SALT_LEN == 16
TokenLen == 3

Min(a, b) == IF a <= b THEN a ELSE b

Byte(src, pos, aliased) ==
    [src |-> src, pos |-> pos, aliased |-> aliased, alt |-> "as_written"]

\* Faulty variant: one fixed salt for every container.
os_urandom_Fixed(draws) ==
    [i \in 1..SALT_LEN |-> Byte(<<"salt", 1>>, i, FALSE)]

\* os.urandom(16), line 92: the salt of the draw after `draws` earlier ones.
os_urandom(draws) ==
    [i \in 1..SALT_LEN |-> Byte(<<"salt", draws + 1>>, i, FALSE)]

\* _derive_encryption_key, lines 17-27: PBKDF2 of the password under the
\* salt.  Two salts give the same key only if they are the same bytes; the
\* key names the salt by its draw, its length and its changed bytes.
DeriveEncryptionKey(password, salt) ==
    <<password, Len(salt),
      {salt[i].src : i \in 1..Len(salt)},
      {<<i, salt[i].pos, salt[i].alt>> : i \in {j \in 1..Len(salt) :
                                                  salt[j].pos # j \/ salt[j].alt # "as_written"}}>>

\* json.dumps / json.loads of a dictionary of strings: the text lists the
\* members in insertion order, parsing builds the dictionary back.
KeyDictFields ==
    <<"wif", "address", "private_key_hex", "public_key_hex", "network", "address_type">>
json_dumps(data) == [i \in 1..Len(KeyDictFields) |-> <<KeyDictFields[i], data[KeyDictFields[i]]>>]
json_loads(text) ==
    [f \in {text[i][1] : i \in 1..Len(text)} |->
        (CHOOSE m \in {text[i] : i \in 1..Len(text)} : m[1] = f)[2]]

\* Fernet(key).encrypt(plaintext): the base64url text of the token made with
\* a fresh IV.  `aliases` are the positions of the characters that have a
\* second spelling ('-' / '+', '_' / '/', or unused trailing bits before
\* the padding); which those are depends on the token's random bytes.
\* The token's length follows the plaintext's: the 334-byte JSON of a p2pkh
\* key fills 21 AES blocks and gives 393 token bytes, 524 characters without
\* padding; the 343-byte JSON of a p2wpkh key fills 22 blocks and gives 409
\* bytes, 548 characters the last of which are '=' padding.  Here a token
\* is TokenLen characters, and one more, the padding, in the second case.
Padded(plaintext) == json_loads(plaintext).address_type = "p2wpkh"
TokenLength(plaintext) == IF Padded(plaintext) THEN TokenLen + 1 ELSE TokenLen

FernetEncrypt(key, plaintext, iv, aliases) ==
    [i \in 1..TokenLength(plaintext) |->
        Byte(<<"token", key, plaintext, iv>>, i, i \in aliases)]

\* base64.urlsafe_b64decode(token) gives the bytes of the token that was
\* issued: every character is in place and decodes to the bits written.
DecodesToIssued(token) ==
    /\ token # <<>>
    /\ token[1].src[1] = "token"
    /\ Len(token) = TokenLength(token[1].src[3])
    /\ \A i \in 1..Len(token) :
         /\ token[i].pos = i
         /\ token[i].src = token[1].src
         /\ token[i].src[1] = "token"
         /\ token[i].alt \in {"as_written", "same_bits"}

\* Faulty variant: the token is accepted without its HMAC being tied to the key.
FernetVerifies_AnyKey(key, token) == DecodesToIssued(token)

\* Fernet(key).decrypt(token) verifies: the HMAC holds for the decoded bytes.
FernetVerifies(key, token) ==
    /\ DecodesToIssued(token)
    /\ token[1].src[2] = key

\* Faulty variant: the salt is taken one byte short.
SaltOf_OneShort(encrypted_data_with_salt) ==
    SubSeq(encrypted_data_with_salt, 1, Min(SALT_LEN - 1, Len(encrypted_data_with_salt)))

\* encrypted_data_with_salt[:16] and [16:], lines 106-107.
SaltOf(encrypted_data_with_salt) ==
    SubSeq(encrypted_data_with_salt, 1, Min(SALT_LEN, Len(encrypted_data_with_salt)))
PayloadOf(encrypted_data_with_salt) ==
    SubSeq(encrypted_data_with_salt, SALT_LEN + 1, Len(encrypted_data_with_salt))

\* `draws` random salts were drawn before; iv and aliases come with the token.
encrypt_key_data(data, password, draws, aliases) ==
    LET salt == os_urandom(draws)
        key == DeriveEncryptionKey(password, salt)
        serialized_data == json_dumps(data)
        encrypted_payload == FernetEncrypt(key, serialized_data, draws + 1, aliases)
    IN salt \o encrypted_payload

decrypt_key_data(encrypted_data_with_salt, password) ==
    LET salt == SaltOf(encrypted_data_with_salt)
        encrypted_payload == PayloadOf(encrypted_data_with_salt)
        key == DeriveEncryptionKey(password, salt)
    IN IF ~FernetVerifies(key, encrypted_payload)
       THEN Raised("InvalidToken", "FernetDecrypt", 0)    \* not caught here
       ELSE [raised |-> "None", reason |-> "returned",
             data |-> json_loads(encrypted_payload[1].src[3])]

\* Faulty variant: the existence check sits inside the try block, so a
\* missing file is reported like a failed decryption.
MissingFileError_Wrapped == Raised("ValueError", "DecryptionFailure", 0)

\* Line 127: raise FileNotFoundError.
MissingFileError == Raised("FileNotFoundError", "FileNotFound", 0)

\* `steps` lists what the call did before it returned or raised.
load_encrypted_key(path_exists, contents, password) ==
    IF ~path_exists
    THEN [result |-> MissingFileError, steps |-> <<"exists">>]
    ELSE LET r == decrypt_key_data(contents, password)
         IN [result |-> IF r.raised # "None"
                        THEN Raised("ValueError", "DecryptionFailure", 0)
                        ELSE r,
             steps |-> <<"exists", "read", "derive", "decrypt">>]

\* ------------------------------------------------------------------------
\* State: one send request.  The caller's inputs are fixed by Init; sel is
\* what select_utxos_for_amount gave back, tx what create_raw_transaction did.
\* ------------------------------------------------------------------------
VARIABLES utxos, amount_btc, fee_rate, input_type, sel, tx, fee_args, est,
          key_data, key_password, issued, file_exists, file, kcall,
          rcall, ledger, lcall, procs

vars == <<utxos, amount_btc, fee_rate, input_type, sel, tx, fee_args, est,
          key_data, key_password, issued, file_exists, file, kcall,
          rcall, ledger, lcall, procs>>
request == <<utxos, amount_btc, fee_rate, input_type>>
\* The key at hand and its file: key_data is the key material the user
\* holds and key_password the password protecting it, issued lists the
\* encrypt_key_data calls made so far (arguments and container), file is what
\* the wallet file holds when file_exists, kcall is the last key_manager call.
custody == <<key_data, key_password, issued, file_exists, file, kcall>>
secret == <<key_data, key_password>>
NoKeyCalls ==
    /\ issued = <<>>
    /\ file_exists = FALSE
    /\ file = <<>>
    /\ kcall = [fn |-> "none"]

\* The collaborators outside the send pipeline: rcall is the last call of
\* the signer or the broadcaster with the requests it sent to the node,
\* ledger is the content of the database file's two tables and lcall the
\* last database call, procs are the key_manager calls in progress when
\* several run at once on one path.
remote == <<rcall, ledger, lcall, procs>>
NoRemote ==
    /\ rcall = [fn |-> "none"]
    /\ ledger = [initialized |-> FALSE, keys |-> <<>>, transactions |-> <<>>]
    /\ lcall = [fn |-> "none"]
    /\ procs = <<>>

\* Arguments of a fee-model call; an optional argument is a sequence,
\* <<>> for None and <<r>> for the value r.
FeeArgs(num_inputs, num_outputs, in_type, out_type, custom_rate) ==
    [num_inputs |-> num_inputs, num_outputs |-> num_outputs,
     input_type |-> in_type, output_type |-> out_type, custom_rate |-> custom_rate]

NotCalled == [raised |-> "NotCalled", reason |-> "NotCalled"]

\* Inputs the caller can supply.
UtxoAmounts == {BTC(10, SubSat \div 2), BTC(300000, 0), BTC(500000, 0)}
UtxoKeySets == {REQUIRED_UTXO_KEYS}
InputTypes == {"p2wpkh", "p2pkh", "p2sh-p2wpkh"}
FeeRates == 0..MaxRate
Leftovers == {-1, 0, 1, 500, 545, 546}
Fractions == {0, SubSat - 1}
\* (recipient address, change address, network_name) of a call: the two
\* accepted combinations (config default and explicit testnet) and one
\* combination for each way validation rejects.
Addr(role, network) == [role |-> role, network |-> network]
CallEnvs ==
    {<<Addr("recipient", "bitcoin"), Addr("change", "bitcoin"), "None">>,
     <<Addr("recipient", "testnet"), Addr("change", "testnet"), "testnet">>,
     <<Addr("recipient", "testnet"), Addr("change", "testnet"), "bitcoin_testnet">>,
     <<Addr("recipient", "bitcoin"), Addr("change", "testnet"), "testnet">>,
     <<Addr("recipient", "testnet"), Addr("change", "malformed"), "testnet">>}

UtxoLists ==
    UNION {{[i \in 1..n |-> [txid |-> i, amount |-> f[i][1], keys |-> f[i][2]]] :
               f \in [1..n -> UtxoAmounts \X UtxoKeySets]} : n \in 0..MaxUtxos}

RECURSIVE SumAmounts(_)
SumAmounts(us) ==
    IF us = <<>> THEN 0 ELSE btc_to_satoshi(us[1].amount) + SumAmounts(Tail(us))

LargestAmount(us) ==
    IF us = <<>> THEN 0
    ELSE CHOOSE m \in {btc_to_satoshi(us[i].amount) : i \in 1..Len(us)} :
            \A i \in 1..Len(us) : btc_to_satoshi(us[i].amount) <= m

\* Amounts to send: the documented 0.002 BTC, and the amounts that leave each
\* leftover of Leftovers after the fee for one or two outputs, when spending
\* the whole list or its largest UTXO alone.
SendTargets(us, rate, type) ==
    {200000} \cup
    {t \in {S[1] - rate * estimate_transaction_size(S[2], k, type, "p2pkh") - l :
               S \in {<<SumAmounts(us), Len(us)>>, <<LargestAmount(us), 1>>},
               k \in 1..2, l \in Leftovers} : t >= 0}

SendAmounts(us, rate, type) ==
    {BTC(t, f) : t \in SendTargets(us, rate, type), f \in Fractions}

Init ==
    /\ utxos \in UtxoLists
    /\ fee_rate \in FeeRates
    /\ input_type \in InputTypes
    /\ amount_btc \in SendAmounts(utxos, fee_rate, input_type)
    /\ sel = NotCalled
    /\ tx = [call |-> "none", env |-> <<>>, result |-> NotCalled]
    /\ fee_args = FeeArgs(1, 2, "p2wpkh", "p2pkh", <<>>)
    /\ est = [fn |-> "none"]
    /\ key_data = <<>>
    /\ key_password = ""
    /\ NoKeyCalls
    /\ NoRemote

\* selected, total, fee = select_utxos_for_amount(utxos, btc_to_satoshi(amount), rate, type)
Select ==
    /\ sel' = select_utxos_for_amount(utxos, btc_to_satoshi(amount_btc), fee_rate,
                                      input_type, "p2pkh")
    /\ utxos' = CallerUtxosAfterSelect(utxos)
    /\ UNCHANGED <<amount_btc, fee_rate, input_type, tx, fee_args, est, custody, remote>>

\* create_raw_transaction on the list select returned.
Build(recipient, change, network_name) ==
    /\ sel.raised = "None"
    /\ tx' = [call |-> "selected", env |-> <<recipient, change, network_name>>,
              result |-> create_raw_transaction(recipient, amount_btc, fee_rate,
                                                sel.selected, change, network_name,
                                                input_type)]
    /\ UNCHANGED <<request, sel, fee_args, est, custody, remote>>

\* create_raw_transaction on a list the caller annotated itself: all its UTXOs.
BuildDirect(recipient, change, network_name) ==
    /\ tx' = [call |-> "direct", env |-> <<recipient, change, network_name>>,
              result |-> create_raw_transaction(recipient, amount_btc, fee_rate,
                                                [i \in 1..Len(utxos) |-> WithSats(utxos[i])],
                                                change, network_name, input_type)]
    /\ UNCHANGED <<request, sel, fee_args, est, custody, remote>>

Next ==
    \/ Select
    \/ \E e \in CallEnvs : Build(e[1], e[2], e[3])
    \/ \E e \in CallEnvs : BuildDirect(e[1], e[2], e[3])

Spec == Init /\ [][Next]_vars

\* ------------------------------------------------------------------------
\* Argument validation: the same calls on lists whose UTXOs may lack a
\* required key, for an amount any single complete UTXO covers, and
\* create_raw_transaction also on a list nobody annotated.
\* ------------------------------------------------------------------------
ValidateAmounts == {BTC(300000, 0), BTC(500000, 0)}
ValidateKeySets ==
    {REQUIRED_UTXO_KEYS} \cup
    {REQUIRED_UTXO_KEYS \ {k} : k \in REQUIRED_UTXO_KEYS}
ValidateLists ==
    UNION {{[i \in 1..n |-> [txid |-> i, amount |-> f[i][1], keys |-> f[i][2]]] :
               f \in [1..n -> ValidateAmounts \X ValidateKeySets]} : n \in 0..MaxUtxos}

InitValidate ==
    /\ utxos \in ValidateLists
    /\ fee_rate = 1
    /\ input_type = "p2wpkh"
    /\ amount_btc = BTC(200000, 0)
    /\ sel = NotCalled
    /\ tx = [call |-> "none", env |-> <<>>, result |-> NotCalled]
    /\ fee_args = FeeArgs(1, 2, "p2wpkh", "p2pkh", <<>>)
    /\ est = [fn |-> "none"]
    /\ key_data = <<>>
    /\ key_password = ""
    /\ NoKeyCalls
    /\ NoRemote

\* create_raw_transaction on the caller's list as it is, no satoshi_amount set.
BuildUnannotated(recipient, change, network_name) ==
    /\ tx' = [call |-> "unannotated", env |-> <<recipient, change, network_name>>,
              result |-> create_raw_transaction(recipient, amount_btc, fee_rate,
                                                utxos, change, network_name,
                                                input_type)]
    /\ UNCHANGED <<request, sel, fee_args, est, custody, remote>>

NextValidate ==
    \/ Next
    \/ \E e \in CallEnvs : BuildUnannotated(e[1], e[2], e[3])

SpecValidate == InitValidate /\ [][NextValidate]_vars

\* ------------------------------------------------------------------------
\* The fee model on its own: the two functions of fee_estimator.py applied
\* to arguments of the caller's choice; est records the last call.
\* ------------------------------------------------------------------------
Counts == {0, 1, 2, 251, 252, 253, MaxCount}
OutputTypes == {"p2pkh", "p2wpkh", "p2sh", "p2tr"}
CustomRates == {<<>>} \cup {<<r>> : r \in FeeRates}

InitFee ==
    /\ utxos = <<>>
    /\ fee_rate = 0
    /\ input_type = "p2wpkh"
    /\ amount_btc = 0
    /\ sel = NotCalled
    /\ tx = [call |-> "none", env |-> <<>>, result |-> NotCalled]
    /\ fee_args \in {FeeArgs(ni, no, it, ot, cr) :
                        ni \in Counts, no \in Counts, it \in InputTypes,
                        ot \in OutputTypes, cr \in CustomRates}
    /\ est = [fn |-> "none"]
    /\ key_data = <<>>
    /\ key_password = ""
    /\ NoKeyCalls
    /\ NoRemote

\* estimate_transaction_size_bytes(num_inputs, num_outputs, input_type, output_type)
EstimateSize ==
    /\ est' = [fn |-> "estimate_transaction_size_bytes",
               result |-> estimate_transaction_size_bytes(
                              fee_args.num_inputs, fee_args.num_outputs,
                              fee_args.input_type, fee_args.output_type)]
    /\ UNCHANGED <<request, sel, tx, fee_args, custody, remote>>

\* estimate_fee_details(num_inputs, num_outputs, input_type, output_type, custom rate)
EstimateFee ==
    /\ est' = [fn |-> "estimate_fee_details",
               result |-> estimate_fee_details(
                              fee_args.num_inputs, fee_args.num_outputs,
                              fee_args.input_type, fee_args.output_type,
                              fee_args.custom_rate)]
    /\ UNCHANGED <<request, sel, tx, fee_args, custody, remote>>

\* tx_builder.estimate_transaction_size(num_inputs, num_outputs, input_type, output_type)
EstimateSizeBuilder ==
    /\ est' = [fn |-> "estimate_transaction_size",
               result |-> estimate_transaction_size(
                              fee_args.num_inputs, fee_args.num_outputs,
                              fee_args.input_type, fee_args.output_type)]
    /\ UNCHANGED <<request, sel, tx, fee_args, custody, remote>>

NextFee ==
    \/ EstimateSize
    \/ EstimateFee
    \/ EstimateSizeBuilder

SpecFee == InitFee /\ [][NextFee]_vars

\* ------------------------------------------------------------------------
\* Key generation and import on their own.
\* ------------------------------------------------------------------------
MaxKeys == 3
KeyNetworks == {"bitcoin", "testnet", "regtest", "bitcoin_testnet"}
AddressTypes == {"p2pkh", "p2wpkh", "p2sh", "p2tr"}
WifKeys == {Wif(k, n) : k \in 1..MaxKeys, n \in {"bitcoin", "testnet"}} \cup {MalformedWif}

NoSend ==
    /\ utxos = <<>>
    /\ fee_rate = 0
    /\ input_type = "p2wpkh"
    /\ amount_btc = 0
    /\ sel = NotCalled
    /\ tx = [call |-> "none", env |-> <<>>, result |-> NotCalled]
    /\ fee_args = FeeArgs(1, 2, "p2wpkh", "p2pkh", <<>>)
    /\ est = [fn |-> "none"]

wallet == <<utxos, amount_btc, fee_rate, input_type, sel, tx, fee_args, est>>

NoSecret == key_data = <<>> /\ key_password = ""

InitKeys == NoSend /\ NoSecret /\ NoKeyCalls /\ NoRemote

\* generate_wif_key(network_name, address_type)
Generate(network_name, address_type, key) ==
    /\ kcall' = [fn |-> "generate_wif_key", network_name |-> network_name,
                 address_type |-> address_type,
                 result |-> generate_wif_key(network_name, address_type, key)]
    /\ UNCHANGED <<wallet, remote, secret, issued, file_exists, file>>

\* import_wif_key(wif_key, network_name, address_type)
Import(wif_key, network_name, address_type) ==
    /\ kcall' = [fn |-> "import_wif_key", wif_key |-> wif_key,
                 network_name |-> network_name, address_type |-> address_type,
                 result |-> import_wif_key(wif_key, network_name, address_type)]
    /\ UNCHANGED <<wallet, remote, secret, issued, file_exists, file>>

NextKeygen ==
    \/ \E n \in KeyNetworks, t \in AddressTypes, k \in 1..MaxKeys : Generate(n, t, k)
    \/ \E w \in WifKeys, n \in KeyNetworks, t \in AddressTypes : Import(w, n, t)

SpecKeygen == InitKeys /\ [][NextKeygen]_vars

\* ------------------------------------------------------------------------
\* Custody of the encrypted key file: encrypt / decrypt in memory, save /
\* load through the wallet file, the file's removal, and damage to the file
\* (one byte changed, or the file cut short) while it holds a container
\* exactly as it was saved.
\* ------------------------------------------------------------------------
MaxEncrypts == 2
Passwords == {"supersecretpassword", "wrongpassword"}
KeyDatas ==
    {generate_wif_key("bitcoin", "p2pkh", 1).data,
     generate_wif_key("testnet", "p2wpkh", 2).data}
AliasLayouts == {{}, {2}}

InitCustody ==
    /\ NoSend
    /\ key_data \in KeyDatas
    /\ key_password \in Passwords
    /\ NoKeyCalls
    /\ NoRemote

Issue(data, password, aliases) ==
    [data |-> data, password |-> password,
     container |-> encrypt_key_data(data, password, Len(issued), aliases)]

\* encrypt_key_data(key_data, password)
Encrypt(aliases) ==
    /\ Len(issued) < MaxEncrypts
    /\ issued' = Append(issued, Issue(key_data, key_password, aliases))
    /\ kcall' = [fn |-> "encrypt_key_data"]
    /\ UNCHANGED <<wallet, remote, secret, file_exists, file>>

\* save_encrypted_key(key_data, password, filepath)
Save(aliases) ==
    /\ Len(issued) < MaxEncrypts
    /\ issued' = Append(issued, Issue(key_data, key_password, aliases))
    /\ file' = Issue(key_data, key_password, aliases).container
    /\ file_exists' = TRUE
    /\ kcall' = [fn |-> "save_encrypted_key"]
    /\ UNCHANGED <<wallet, remote, secret>>

\* decrypt_key_data on the container last issued, or on the file's bytes.
Decrypt(blob, password) ==
    /\ kcall' = [fn |-> "decrypt_key_data", blob |-> blob, password |-> password,
                 result |-> decrypt_key_data(blob, password)]
    /\ UNCHANGED <<wallet, remote, secret, issued, file_exists, file>>

\* load_encrypted_key(filepath, password)
Load(password) ==
    /\ kcall' = [fn |-> "load_encrypted_key", password |-> password,
                 path_exists |-> file_exists,
                 result |-> load_encrypted_key(file_exists, file, password).result,
                 steps |-> load_encrypted_key(file_exists, file, password).steps]
    /\ UNCHANGED <<wallet, remote, secret, issued, file_exists, file>>

\* os.remove(wallet_filepath)
RemoveFile ==
    /\ file_exists
    /\ file_exists' = FALSE
    /\ file' = <<>>
    /\ UNCHANGED <<wallet, remote, secret, issued, kcall>>

\* The file holds a container as it was written, and has not been read since.
FileAsSaved ==
    /\ file_exists
    /\ \E i \in 1..Len(issued) : file = issued[i].container
    /\ kcall.fn \notin {"decrypt_key_data", "load_encrypted_key"}

\* One byte of the file becomes another byte.
FlipByte(i, alt) ==
    /\ FileAsSaved
    /\ alt = "same_bits" => file[i].aliased
    /\ file' = [file EXCEPT ![i].alt = alt]
    /\ UNCHANGED <<wallet, remote, secret, issued, file_exists, kcall>>

\* The file loses its end.
Truncate(n) ==
    /\ FileAsSaved
    /\ file' = SubSeq(file, 1, n)
    /\ UNCHANGED <<wallet, remote, secret, issued, file_exists, kcall>>

Blobs ==
    (IF issued = <<>> THEN {} ELSE {issued[Len(issued)].container})
        \cup (IF file_exists THEN {file} ELSE {})

NextCustody ==
    \/ \E a \in AliasLayouts : Encrypt(a)
    \/ \E a \in AliasLayouts : Save(a)
    \/ \E b \in Blobs, p \in Passwords : Decrypt(b, p)
    \/ \E p \in Passwords : Load(p)
    \/ RemoveFile
    \/ \E i \in 1..Len(file), alt \in {"same_bits", "other_bits"} : FlipByte(i, alt)
    \/ \E n \in 0..(Len(file) - 1) : Truncate(n)

SpecCustody == InitCustody /\ [][NextCustody]_vars

\* ========================================================================
\* Properties
\* ========================================================================
TargetSats == btc_to_satoshi(amount_btc)
SelReturned == sel.raised = "None"
TxReturned == tx.result.raised = "None"
TxInputTotal == SumValues(tx.result.tx.inputs)
TxOutputTotal == SumValues(tx.result.tx.outputs)

\* rate x size for n inputs and k outputs, from the documented size table.
TableFee(n, k) ==
    fee_rate * (n * (CASE input_type = "p2wpkh" -> 68
                       [] input_type = "p2pkh" -> 148
                       [] OTHER -> 100)
                + k * 34 + 10)

\* Some non-empty subset of the caller's UTXOs covers target plus the fee of
\* a transaction with that many inputs and one or two outputs.
Feasible ==
    \E S \in SUBSET (1..Len(utxos)) :
        /\ S # {}
        /\ \E k \in 1..2 :
              SumAmounts([i \in 1..Cardinality(S) |->
                             utxos[CHOOSE j \in S :
                                      Cardinality({m \in S : m < j}) = i - 1]])
                  >= TargetSats + TableFee(Cardinality(S), k)

\* C1: every transaction create_raw_transaction returns balances exactly:
\* sum of output values + returned fee = sum of input values.
C1_Balance ==
    TxReturned => TxOutputTotal + tx.result.fee = TxInputTotal

\* C1 witness: a returned transaction whose sub-dust change was folded into
\* the fee (one output, fee above the estimate).
C1_Witness ==
    /\ TxReturned
    /\ Len(tx.result.tx.outputs) = 1
    /\ tx.result.fee > TableFee(Len(tx.result.tx.inputs), 2)
    /\ fee_rate > 0


WellFormed == utxos # <<>> /\ FirstMissing(utxos, REQUIRED_UTXO_KEYS) = 0
ValidationReasons == {"UnsupportedNetwork", "NoUtxos", "MalformedUtxo", "InvalidAddress"}

\* C2: on the list select_utxos_for_amount returned, create_raw_transaction
\* with the same amount, rate and input type and a valid network and
\* addresses returns a transaction; it never fails with InsufficientFunds.
C2_SelectedSetBuilds ==
    (tx.call = "selected" /\ tx.result.reason \notin ValidationReasons)
        => (TxReturned /\ tx.result.reason # "InsufficientFunds")

\* C3: whenever some subset of a non-empty well-formed UTXO set covers target
\* plus the fee for its input count with 1 or 2 outputs, select returns a
\* selection with total_selected >= target + returned fee.
C3_FeasibleSelects ==
    (sel.raised # "NotCalled" /\ WellFormed /\ Feasible)
        => (SelReturned /\ sel.total >= TargetSats + sel.fee)

\* C4: select returns only covering selections (total_selected >= target +
\* returned fee); otherwise, and always when no subset can cover target plus
\* fee, it raises InsufficientFunds and returns no selection.
C4_SelectionCovers ==
    sel.raised # "NotCalled" =>
        /\ SelReturned =>
              /\ sel.total = SumSats(sel.selected)
              /\ sel.total >= TargetSats + sel.fee
        /\ (~SelReturned /\ WellFormed) =>
              /\ sel.raised = "ValueError"
              /\ sel.reason = "InsufficientFunds"
              /\ "selected" \notin DOMAIN sel
        /\ (WellFormed /\ ~Feasible) => ~SelReturned

\* C4 witness: a returned selection that needed a second UTXO, at a fee
\* rate above zero.
C4_Witness ==
    /\ SelReturned
    /\ Len(sel.selected) = 2
    /\ sel.selected[1].satoshi_amount < TargetSats + sel.fee
    /\ fee_rate > 0

\* What is left of the inputs after the target and the two-output fee.
TxLeftover == TxInputTotal - TargetSats - TableFee(Len(tx.result.tx.inputs), 2)

\* C5: a returned transaction has no change output below 546 satoshis; a
\* leftover in 1..545 gives exactly one output (the recipient) and a fee of
\* the estimate plus the leftover; a leftover of 546 or more gives a change
\* output of exactly the leftover.
C5_NoDustChange ==
    TxReturned =>
        LET outs == tx.result.tx.outputs
        IN /\ outs[1] = [value |-> TargetSats, address |-> outs[1].address]
           /\ outs[1].address.role = "recipient"
           /\ \A i \in 2..Len(outs) : outs[i].value >= 546
           /\ (0 < TxLeftover /\ TxLeftover < 546) =>
                 /\ Len(outs) = 1
                 /\ tx.result.fee = TableFee(Len(tx.result.tx.inputs), 2) + TxLeftover
           /\ TxLeftover >= 546 =>
                 /\ Len(outs) = 2
                 /\ outs[2].value = TxLeftover
                 /\ outs[2].address.role = "change"
                 /\ tx.result.fee = TableFee(Len(tx.result.tx.inputs), 2)

\* C5 witness: the documented scenario, leftover 500 => one output and the
\* fee includes the 500.
C5_Witness ==
    /\ TxReturned
    /\ fee_rate > 0
    /\ TxLeftover = 500
    /\ Len(tx.result.tx.outputs) = 1
    /\ tx.result.fee = TableFee(Len(tx.result.tx.inputs), 2) + 500

\* C6: when create_raw_transaction computes change == 0 it adds no change
\* output and returns the fee estimated for 1 output.
C6_ZeroChangeOneOutputFee ==
    (/\ TxReturned
     /\ TxInputTotal - TargetSats
            - TentativeFee(TxInputTotal, TargetSats, Len(tx.result.tx.inputs),
                           fee_rate, input_type) = 0)
        => /\ Len(tx.result.tx.outputs) = 1
           /\ tx.result.fee = TableFee(Len(tx.result.tx.inputs), 1)

\* C7: when the target equals the total of the available UTXOs minus the fee
\* of the one-output transaction spending them, select succeeds and create
\* yields a one-output transaction that balances.
C7_ExactTargetBuilds ==
    (WellFormed /\ TargetSats = SumAmounts(utxos) - TableFee(Len(utxos), 1)) =>
        /\ sel.raised # "NotCalled" => SelReturned
        /\ (tx.call = "selected" /\ tx.result.reason \notin ValidationReasons) =>
              /\ TxReturned
              /\ Len(tx.result.tx.outputs) = 1
              /\ TxOutputTotal + tx.result.fee = TxInputTotal

\* The documented scenario: segwit UTXOs of 0.005 and 0.003 BTC, target
\* 0.002 BTC, 2 sat/vbyte.
Scenario ==
    /\ utxos = <<[txid |-> 1, amount |-> BTC(500000, 0), keys |-> REQUIRED_UTXO_KEYS],
                 [txid |-> 2, amount |-> BTC(300000, 0), keys |-> REQUIRED_UTXO_KEYS]>>
    /\ amount_btc = BTC(200000, 0)
    /\ fee_rate = 2
    /\ input_type = "p2wpkh"

ScenarioGives(fee, change) ==
    Scenario =>
        /\ sel.raised # "NotCalled" =>
              /\ SelReturned
              /\ Len(sel.selected) = 1
              /\ sel.selected[1].txid = 1
              /\ sel.total = 500000
              /\ sel.fee = fee
        /\ (tx.call = "selected" /\ tx.result.reason \notin ValidationReasons) =>
              /\ TxReturned
              /\ tx.result.fee = fee
              /\ Len(tx.result.tx.outputs) = 2
              /\ tx.result.tx.outputs[1].value = 200000
              /\ tx.result.tx.outputs[1].address.role = "recipient"
              /\ tx.result.tx.outputs[2].value = change
              /\ tx.result.tx.outputs[2].address.role = "change"

\* C8 (as amended): in the documented scenario select returns only the
\* 0.005 BTC UTXO, the fee is 292 sats (146 bytes at 2 sat/vbyte) and create
\* produces a recipient output of 200,000 and a change output of 299,708.
C8_ScenarioActual == ScenarioGives(292, 299708)

\* C8 (as claimed): the same with a fee of 276 sats and change of 299,724.
C8_ScenarioAsClaimed == ScenarioGives(276, 299724)

\* C8 witness: the scenario selected and built.
C8_Witness ==
    /\ Scenario
    /\ SelReturned
    /\ tx.call = "selected"
    /\ TxReturned

\* C9: estimate_transaction_size_bytes = n_in*U_in + n_out*U_out + overhead,
\* U_in 68 / 148 / 100 (other), U_out 34 / 31 / 32, overhead 10, +2 for each
\* count above 252.
C9_SizeFormula ==
    (est.fn = "estimate_transaction_size_bytes"
        /\ fee_args.output_type \in {"p2pkh", "p2wpkh", "p2sh"}) =>
        est.result =
            fee_args.num_inputs * (CASE fee_args.input_type = "p2wpkh" -> 68
                                     [] fee_args.input_type = "p2pkh" -> 148
                                     [] OTHER -> 100)
            + fee_args.num_outputs * (CASE fee_args.output_type = "p2pkh" -> 34
                                        [] fee_args.output_type = "p2wpkh" -> 31
                                        [] fee_args.output_type = "p2sh" -> 32)
            + 10
            + (IF fee_args.num_inputs <= 252 THEN 0 ELSE 2)
            + (IF fee_args.num_outputs <= 252 THEN 0 ELSE 2)

\* C9 witness: 253 inputs of an unknown type and 252 segwit outputs: the
\* fallback of 100 per input and an overhead of 12.
C9_Witness ==
    /\ est.fn = "estimate_transaction_size_bytes"
    /\ fee_args.num_inputs = 253
    /\ fee_args.num_outputs = 252
    /\ fee_args.input_type = "p2sh-p2wpkh"
    /\ fee_args.output_type = "p2wpkh"
    /\ est.result = 25300 + 7812 + 12

\* C10: estimate_fee_details returns total_fee_sats = size x rate, with the
\* caller's rate whenever one is supplied (0 included) and the configured
\* default only when none is.
C10_FeeDetails ==
    est.fn = "estimate_fee_details" =>
        LET rate == IF Len(fee_args.custom_rate) = 0
                    THEN DEFAULT_FEE_SATS_PER_BYTE
                    ELSE fee_args.custom_rate[1]
        IN /\ est.result.fee_rate_sats_per_vbyte = rate
           /\ est.result.total_fee_sats = est.result.estimated_size_vbytes * rate
           /\ est.result.estimated_size_vbytes =
                 estimate_transaction_size_bytes(fee_args.num_inputs,
                                                 fee_args.num_outputs,
                                                 fee_args.input_type,
                                                 fee_args.output_type)

\* C10 witness: a supplied rate of 0 on a transaction of positive size gives
\* a fee of 0.
C10_Witness ==
    /\ est.fn = "estimate_fee_details"
    /\ fee_args.custom_rate = <<0>>
    /\ est.result.estimated_size_vbytes > 0
    /\ est.result.total_fee_sats = 0

\* ------------------------------------------------------------------------
\* C11: for fixed input and output types, one more input or one more output
\* never lowers the estimated size, for fee_estimator's estimator (also
\* across its 252/253 varint step) and for tx_builder's: the size a call
\* returned is at most the size for either count raised by one.
\* ------------------------------------------------------------------------
SizeOf(fn, num_inputs, num_outputs) ==
    IF fn = "estimate_transaction_size_bytes"
    THEN estimate_transaction_size_bytes(num_inputs, num_outputs,
                                         fee_args.input_type, fee_args.output_type)
    ELSE estimate_transaction_size(num_inputs, num_outputs,
                                   fee_args.input_type, fee_args.output_type)

C11_SizeMonotone ==
    est.fn \in {"estimate_transaction_size_bytes", "estimate_transaction_size"} =>
        /\ est.result <= SizeOf(est.fn, fee_args.num_inputs + 1, fee_args.num_outputs)
        /\ est.result <= SizeOf(est.fn, fee_args.num_inputs, fee_args.num_outputs + 1)

\* A call with 252 inputs, where one more input also widens the varint.
C11_Witness ==
    /\ est.fn = "estimate_transaction_size_bytes"
    /\ fee_args.num_inputs = 252
    /\ fee_args.input_type = "p2wpkh"
    /\ SizeOf(est.fn, 253, fee_args.num_outputs) = est.result + 68 + 2
\* ------------------------------------------------------------------------
\* C12: btc_to_satoshi of a non-negative amount is the exact product with
\* 100,000,000 truncated: not above it, less than one satoshi below it, and
\* equal to it for a whole number of satoshis.  Each UTXO select returns
\* carries exactly that value of its amount, the total returned is their
\* sum, and the recipient output of a built transaction is the truncated
\* amount to send.  (An amount a is a / SubSat satoshis.)
\* ------------------------------------------------------------------------
IsTruncationOf(sats, amount) ==
    /\ sats * SubSat <= amount
    /\ amount < (sats + 1) * SubSat
    /\ (amount % SubSat = 0 => sats * SubSat = amount)

RECURSIVE AnnotatedTotal(_, _)
AnnotatedTotal(selected, n) ==
    IF n = 0 THEN 0 ELSE AnnotatedTotal(selected, n - 1) + selected[n].satoshi_amount

SelCalled == sel.raised # "NotCalled"
IncompleteUtxos == {i \in 1..Len(utxos) : ~(REQUIRED_UTXO_KEYS \subseteq utxos[i].keys)}

C13_SelectValidatesFirst ==
    SelCalled =>
        /\ utxos = <<>> => (sel.raised = "ValueError" /\ sel.reason = "NoUtxos")
        /\ IncompleteUtxos # {} =>
              /\ sel.raised = "ValueError"
              /\ sel.reason = "MalformedUtxo"
              /\ sel.detail + 1 \in IncompleteUtxos
              /\ \A j \in IncompleteUtxos : sel.detail + 1 <= j

\* The first UTXO is complete and covers the amount and fee by itself, the
\* second lacks a key, and the call failed naming position 1.
C13_Witness ==
    /\ Len(utxos) = 2
    /\ IncompleteUtxos = {2}
    /\ btc_to_satoshi(utxos[1].amount) >= TargetSats + TableFee(1, 2)
    /\ sel.reason = "MalformedUtxo"
    /\ sel.detail = 1

\* ------------------------------------------------------------------------
\* C14: create_raw_transaction returns no transaction and raises before the
\* transaction holds any input or output whenever the network is not one of
\* the three supported, the list is empty or has a UTXO lacking txid, vout,
\* satoshi_amount or scriptPubKey, or the recipient or the change address is
\* not valid for the network.
\* ------------------------------------------------------------------------
TxCalled == tx.call # "none"
TxNetwork == IF tx.env[3] = "None" THEN "bitcoin" ELSE tx.env[3]
TxBadNetwork == TxNetwork \notin {"bitcoin", "testnet", "regtest"}
TxBadList ==
    \/ tx.call = "unannotated"
    \/ tx.call = "direct" /\
          (\/ utxos = <<>>
           \/ \E i \in 1..Len(utxos) :
                 ~({"txid", "vout", "scriptPubKey"} \subseteq utxos[i].keys))
TxBadAddress == tx.env[1].network # TxNetwork \/ tx.env[2].network # TxNetwork

IssuedAs(blob) == {i \in 1..Len(issued) : issued[i].container = blob}

C15_RoundTrip ==
    /\ kcall.fn = "decrypt_key_data" =>
          \A i \in IssuedAs(kcall.blob) :
              kcall.password = issued[i].password =>
                  /\ kcall.result.raised = "None"
                  /\ kcall.result.data = issued[i].data
    /\ (kcall.fn = "load_encrypted_key" /\ file_exists) =>
          \A i \in IssuedAs(file) :
              kcall.password = issued[i].password =>
                  /\ kcall.result.raised = "None"
                  /\ kcall.result.data = issued[i].data

\* The file was saved and then loaded with the same password, giving back
\* the key data with all six members.
C15_Witness ==
    /\ kcall.fn = "load_encrypted_key"
    /\ file_exists
    /\ IssuedAs(file) # {}
    /\ kcall.password = key_password
    /\ kcall.result.raised = "None"
    /\ kcall.result.data = key_data
    /\ DOMAIN kcall.result.data =
          {"wif", "address", "private_key_hex", "public_key_hex", "network", "address_type"}
\* ------------------------------------------------------------------------
\* C16: decrypting or loading with a password other than the one the
\* container was encrypted under, or a container that was cut short or had
\* one byte of its salt or ciphertext changed, never returns data, and fails
\* with the one error kind the function has for a failed decryption whatever
\* the cause.
\* ------------------------------------------------------------------------
Damaged(blob) == IssuedAs(blob) = {}
WrongPassword(blob, password) == \E i \in IssuedAs(blob) : password # issued[i].password

C16_DamageAlwaysFails ==
    /\ (kcall.fn = "decrypt_key_data"
          /\ (Damaged(kcall.blob) \/ WrongPassword(kcall.blob, kcall.password))) =>
            kcall.result.raised = "InvalidToken"
    /\ (kcall.fn = "load_encrypted_key" /\ file_exists
          /\ (Damaged(file) \/ WrongPassword(file, kcall.password))) =>
            kcall.result.raised = "ValueError"
\* ------------------------------------------------------------------------
\* C17: every container encrypt_key_data issues starts with the 16 bytes of
\* a salt drawn for that call, followed by the token encrypted under the key
\* derived from the call's password and that salt; no two calls share a salt,
\* so no two containers are equal, even for the same key data and password.
\* ------------------------------------------------------------------------
IsSalt(bytes) ==
    /\ Len(bytes) = SALT_LEN
    /\ \A k \in 1..Len(bytes) : bytes[k].src[1] = "salt" /\ bytes[k].src = bytes[1].src

C17_FreshSalt ==
    \A i \in 1..Len(issued) :
        LET c == issued[i].container
            salt == SubSeq(c, 1, SALT_LEN)
        IN /\ Len(c) > SALT_LEN
           /\ IsSalt(salt)
           /\ \A k \in (SALT_LEN + 1)..Len(c) :
                /\ c[k].src[1] = "token"
                /\ c[k].src[2] = DeriveEncryptionKey(issued[i].password, salt)
           /\ \A j \in 1..(i - 1) :
                /\ SubSeq(issued[j].container, 1, SALT_LEN) # salt
                /\ issued[j].container # c

\* Two calls with the same key data and password, and tokens of the same
\* layout, gave two different containers.
C17_Witness ==
    /\ Len(issued) >= 2
    /\ issued[1].data = issued[2].data
    /\ issued[1].password = issued[2].password
    /\ \A k \in 1..Len(issued[1].container) :
          issued[1].container[k].aliased = issued[2].container[k].aliased
    /\ issued[1].container # issued[2].container
\* ------------------------------------------------------------------------
\* C18: load_encrypted_key on a path that does not exist raises
\* FileNotFoundError having done nothing but the existence check (no read,
\* no key derivation, no decryption), and that is not the kind of error a
\* failed decryption is reported with.
\* ------------------------------------------------------------------------
C18_MissingFile ==
    (kcall.fn = "load_encrypted_key" /\ ~kcall.path_exists) =>
        /\ kcall.result.raised = "FileNotFoundError"
        /\ kcall.steps = <<"exists">>
        /\ kcall.result.raised \notin {"ValueError", "InvalidToken"}

\* The file was saved, removed, and then asked for.
C18_Witness ==
    /\ kcall.fn = "load_encrypted_key"
    /\ ~kcall.path_exists
    /\ Len(issued) > 0
    /\ kcall.result.reason = "FileNotFound"
\* ------------------------------------------------------------------------
\* C19: generate_wif_key and import_wif_key return key material only for
\* p2pkh and p2wpkh; a success carries the requested network and address
\* type, and import the WIF it was given; a failure carries no key material.
\* import fails as InvalidKeyEncoding whenever the WIF does not decode for
\* the network, whatever the address type, and as UnsupportedAddressType
\* when the WIF decodes and the type is another one; generate fails as
\* UnsupportedAddressType for another type on a network the codec knows,
\* and with the codec's NetworkError on a network it does not know.
\* ------------------------------------------------------------------------
KeyCall == kcall.fn \in {"generate_wif_key", "import_wif_key"}
KeyCallFailed == kcall.result.raised # "None"
TypeRequestedSupported == kcall.address_type \in {"p2pkh", "p2wpkh"}
NetworkRequestedKnown == kcall.network_name \in {"bitcoin", "testnet", "regtest"}
WifGivenDecodes ==
    /\ NetworkRequestedKnown
    /\ kcall.wif_key.wellformed
    /\ kcall.wif_key.prefix = (IF kcall.network_name = "bitcoin" THEN "80" ELSE "ef")

KeyCallOutcome ==
    /\ ~KeyCallFailed =>
          /\ TypeRequestedSupported
          /\ kcall.result.data.network = kcall.network_name
          /\ kcall.result.data.address_type = kcall.address_type
          /\ kcall.fn = "import_wif_key" => kcall.result.data.wif = kcall.wif_key
    /\ KeyCallFailed => "data" \notin DOMAIN kcall.result

NamedFailures ==
    {"MalformedUtxo", "InsufficientFunds", "InvalidAddress", "UnsupportedNetwork",
     "UnsupportedAddressType", "InvalidKeyEncoding", "DecryptionFailure"}

FailuresSeen ==
    {<<r.reason, r.raised>> :
        r \in {x \in ({sel, tx.result}
                        \cup (IF "result" \in DOMAIN kcall THEN {kcall.result} ELSE {})) :
                  x.reason \in NamedFailures}}

C20_DistinctKinds ==
    \A a \in FailuresSeen, b \in FailuresSeen : a[1] # b[1] => a[2] # b[2]
\* ------------------------------------------------------------------------
\* The node service behind tx_signer.py and broadcaster.py.  Both obtain a
\* connection with utxo_manager.get_rpc_connection() and send one JSON-RPC
\* request through it.  The node and the RPC client are outside the program:
\* what they answer is an input of the call.  An exception is described by
\* what the handlers look at: whether it is an instance of ConnectionError,
\* its str(), and its error attribute (<<>> when it has none, otherwise one
\* record saying whether the attribute is a dict and, in message, the dict's
\* 'message' entry when it has one).
\* ------------------------------------------------------------------------
MaxPrevtxs == 2

RpcException(class, connection, text, error) ==
    [class |-> class, connection |-> connection, str |-> text, error |-> error]
ErrorAttr(is_dict, message) == <<[is_dict |-> is_dict, message |-> message]>>

ConnectionRefused == RpcException("ConnectionRefusedError", TRUE, "Connection refused", <<>>)
RpcExceptions ==
    { ConnectionRefused,
      RpcException("JSONRPCException", FALSE, "-26: min relay fee not met", ErrorAttr(TRUE, <<"min relay fee not met">>)),
      RpcException("JSONRPCException", FALSE, "-27: unknown", ErrorAttr(TRUE, <<>>)),
      RpcException("JSONRPCException", FALSE, "non-JSON HTTP response", ErrorAttr(FALSE, <<>>)),
      RpcException("TypeError", FALSE, "not JSON serializable", <<>>) }

Raises(e) == [ok |-> FALSE, exc |-> e]
Answers(v) == [ok |-> TRUE, value |-> v]

\* isinstance(e, ConnectionError), the test of `except ConnectionError`.
\* Faulty variant: no exception is recognised as a connection failure.
IsConnectionError_Never(e) == FALSE
IsConnectionError(e) == e.connection

\* error_message = str(e), replaced by e.error['message'] when e has an
\* error attribute that is a dict with that entry.
ErrorMessage(e) ==
    IF e.error # <<>> /\ e.error[1].is_dict /\ e.error[1].message # <<>>
    THEN e.error[1].message[1]
    ELSE e.str

Request(method, params) == [method |-> method, params |-> params]
Returned(value) == [raised |-> "None", reason |-> "returned", value |-> value]

\* The try block shared by both callers: get_rpc_connection(), then the one
\* method call; requests lists the JSON-RPC requests that went out.
RpcTry(connect, sent, answer) ==
    IF ~connect.ok
    THEN [outcome |-> connect, requests |-> <<>>]
    ELSE [outcome |-> answer, requests |-> <<sent>>]

\* The two except clauses, for the operation named by context.
RpcExcept(e, context) ==
    IF IsConnectionError(e)
    THEN Raised("ConnectionError", "ConnectFailure", <<context, e.str>>)
    ELSE Raised("ValueError", "RpcError", <<context, ErrorMessage(e)>>)

\* broadcast_transaction(signed_tx_hex); connect and answer are what
\* get_rpc_connection() and sendrawtransaction do when they are reached.
broadcast_transaction(signed_tx_hex, connect, answer) ==
    IF signed_tx_hex = ""
    THEN [result |-> Raised("ValueError", "EmptySignedHex", <<>>), requests |-> <<>>]
    ELSE LET t == RpcTry(connect, Request("sendrawtransaction", <<signed_tx_hex>>), answer)
         IN [result |-> IF t.outcome.ok
                        THEN Returned(t.outcome.value)
                        ELSE RpcExcept(t.outcome.exc, "sendrawtransaction"),
             requests |-> t.requests]

\* One entry of utxos_spent_details: the keys it has, with their values.
REQUIRED_PREVTX_KEYS == {"txid", "vout", "scriptPubKey", "amount"}
PrevtxLacksKey(utxo) == \E k \in REQUIRED_PREVTX_KEYS : k \notin DOMAIN utxo

\* The prevtxs entry built from one detail record: vout through int(),
\* amount through float().
PrevtxOf(utxo) ==
    [txid |-> utxo.txid, vout |-> utxo.vout,
     scriptPubKey |-> utxo.scriptPubKey, amount |-> <<"float", utxo.amount>>]

\* The checks made before the try block, in the order of the code: <<>>
\* when all pass, otherwise the error raised.
SignArgumentError(unsigned_tx_hex, utxos_spent_details) ==
    IF unsigned_tx_hex = "" THEN <<Raised("ValueError", "EmptyUnsignedHex", <<>>)>>
    ELSE IF utxos_spent_details = <<>> THEN <<Raised("ValueError", "EmptyPrevtxs", <<>>)>>
    ELSE IF \E i \in 1..Len(utxos_spent_details) : PrevtxLacksKey(utxos_spent_details[i])
         THEN <<Raised("ValueError", "MalformedPrevtx", <<>>)>>
    ELSE <<>>

\* The answer is usable when it is a dict holding both 'hex' and 'complete'.
AnswerHasBoth(result) ==
    result.is_dict /\ "hex" \in DOMAIN result.fields /\ "complete" \in DOMAIN result.fields

\* What is made of a usable answer: complete = false only prints warnings.
\* Faulty variant: an incomplete signature is turned into an error.
SignedResult_IncompleteIsError(fields) ==
    IF fields.complete
    THEN Returned(<<fields.hex, fields.complete>>)
    ELSE Raised("ValueError", "NotFullySigned", <<>>)
SignedResult(fields) == Returned(<<fields.hex, fields.complete>>)

\* sign_transaction_with_core(unsigned_tx_hex, private_keys_wif, utxos_spent_details)
sign_transaction_with_core(unsigned_tx_hex, private_keys_wif, utxos_spent_details, connect, answer) ==
    LET bad == SignArgumentError(unsigned_tx_hex, utxos_spent_details)
        prevtxs == [i \in 1..Len(utxos_spent_details) |-> PrevtxOf(utxos_spent_details[i])]
        t == RpcTry(connect, Request("signrawtransactionwithkey", <<unsigned_tx_hex, private_keys_wif, prevtxs>>), answer)
    IN IF bad # <<>>
       THEN [result |-> bad[1], requests |-> <<>>]
       ELSE IF ~t.outcome.ok
       THEN [result |-> RpcExcept(t.outcome.exc, "signrawtransactionwithkey"), requests |-> t.requests]
       ELSE IF ~AnswerHasBoth(t.outcome.value)
       THEN [result |-> Raised("ValueError", "UnexpectedResponse", <<>>), requests |-> t.requests]
       ELSE [result |-> SignedResult(t.outcome.value.fields), requests |-> t.requests]

\* What the callers and the node can supply.
SignedHexes == {"", "0200000001ab"}
Txids == {"txid_a", "txid_b"}
ConnectOutcomes == {Answers("rpc_conn"), Raises(ConnectionRefused)}
SendOutcomes == {Answers(t) : t \in Txids} \cup {Raises(e) : e \in RpcExceptions}

FullPrevtx == [txid |-> "prev_a", vout |-> 0, scriptPubKey |-> "0014aa", amount |-> BTC(300000, 0)]
Without(utxo, k) == [f \in DOMAIN utxo \ {k} |-> utxo[f]]
PrevtxRecords == {FullPrevtx} \cup {Without(FullPrevtx, k) : k \in REQUIRED_PREVTX_KEYS}
PrevtxLists == UNION {[1..n -> PrevtxRecords] : n \in 0..MaxPrevtxs}
WifLists == {<<>>, <<"cWif">>}
SignAnswer(is_dict, fields) == [is_dict |-> is_dict, fields |-> fields]
SigningErrors == <<"Unable to sign input, invalid stack size">>
SignAnswers ==
    { SignAnswer(TRUE, [hex |-> "0200signed", complete |-> TRUE]),
      SignAnswer(TRUE, [hex |-> "0200partial", complete |-> FALSE]),
      SignAnswer(TRUE, [hex |-> "0200000001ab", complete |-> FALSE, errors |-> SigningErrors]),
      SignAnswer(TRUE, [hex |-> "0200signed"]),
      SignAnswer(TRUE, [complete |-> TRUE]),
      SignAnswer(FALSE, <<>>) }
SignOutcomes == {Answers(a) : a \in SignAnswers} \cup {Raises(e) : e \in RpcExceptions}

InitRemote == NoSend /\ NoSecret /\ NoKeyCalls /\ NoRemote

Broadcast(signed_tx_hex, connect, answer) ==
    /\ rcall' = [fn |-> "broadcast_transaction", args |-> <<signed_tx_hex>>,
                 connect |-> connect, answer |-> answer,
                 call |-> broadcast_transaction(signed_tx_hex, connect, answer)]
    /\ UNCHANGED <<wallet, custody, ledger, lcall, procs>>

\* A call leaves nothing behind but its outcome, so a behaviour needs no two
\* signing calls in a row: one transaction is signed, then broadcast.
Sign(unsigned_tx_hex, private_keys_wif, utxos_spent_details, connect, answer) ==
    /\ rcall.fn # "sign_transaction_with_core"
    /\ rcall' = [fn |-> "sign_transaction_with_core",
                 args |-> <<unsigned_tx_hex, private_keys_wif, utxos_spent_details>>,
                 connect |-> connect, answer |-> answer,
                 call |-> sign_transaction_with_core(unsigned_tx_hex, private_keys_wif, utxos_spent_details, connect, answer)]
    /\ UNCHANGED <<wallet, custody, ledger, lcall, procs>>

NextRemote ==
    \/ \E h \in SignedHexes, c \in ConnectOutcomes, a \in SendOutcomes : Broadcast(h, c, a)
    \/ \E h \in SignedHexes, w \in WifLists, d \in PrevtxLists, c \in ConnectOutcomes, a \in SignOutcomes : Sign(h, w, d, c, a)

SpecRemote == InitRemote /\ [][NextRemote]_vars

\* ------------------------------------------------------------------------
\* C21: broadcast_transaction sends at most one sendrawtransaction request
\* per call and never a second one; with an empty hex it fails before any
\* request; a failure that is a ConnectionError surfaces as ConnectionError
\* with the failure's text; any other failure of the service surfaces as
\* ValueError carrying the service's message (the 'message' of the error
\* dict, or the exception's text when there is none); a txid is returned
\* only when the one request was sent and answered, and it is that answer.
\* ------------------------------------------------------------------------
BroadcastCalled == rcall.fn = "broadcast_transaction"
BroadcastFailure == IF rcall.connect.ok THEN rcall.answer.exc ELSE rcall.connect.exc
BroadcastFailed == ~rcall.connect.ok \/ ~rcall.answer.ok

C21_BroadcastOnce ==
    BroadcastCalled =>
        LET r == rcall.call.result
            hex == rcall.args[1]
        IN /\ Len(rcall.call.requests) <= 1
           /\ \A i \in 1..Len(rcall.call.requests) :
                  rcall.call.requests[i] = Request("sendrawtransaction", <<hex>>)
           /\ hex = "" => r.raised = "ValueError" /\ rcall.call.requests = <<>>
           /\ (hex # "" /\ BroadcastFailed /\ BroadcastFailure.connection) =>
                  /\ r.raised = "ConnectionError"
                  /\ r.detail[2] = BroadcastFailure.str
           /\ (hex # "" /\ BroadcastFailed /\ ~BroadcastFailure.connection) =>
                  /\ r.raised = "ValueError"
                  /\ r.detail[2] = ErrorMessage(BroadcastFailure)
                  /\ (BroadcastFailure.error # <<>> /\ BroadcastFailure.error[1].message # <<>>)
                         => r.detail[2] = BroadcastFailure.error[1].message[1]
           /\ r.raised = "None" =>
                  /\ Len(rcall.call.requests) = 1
                  /\ rcall.connect.ok /\ rcall.answer.ok
                  /\ r.value = rcall.answer.value

\* A broadcast that reached the node and was rejected with a message, the
\* case where the error kinds and the request count all matter.
C21_Witness ==
    /\ BroadcastCalled
    /\ rcall.args[1] # ""
    /\ Len(rcall.call.requests) = 1
    /\ rcall.call.result.raised = "ValueError"
    /\ rcall.call.result.detail[2] = "min relay fee not met"

\* ------------------------------------------------------------------------
\* C22: sign_transaction_with_core returns (signed_tx_hex, complete) as a
\* normal result whenever the signing request was answered with a dict
\* holding both 'hex' and 'complete', also when complete is false and the
\* answer lists signing errors; and it fails, with no request sent, when the
\* unsigned hex is empty, the prevtx list is empty, or an entry lacks one of
\* txid, vout, scriptPubKey, amount.
\* ------------------------------------------------------------------------
SignCalled == rcall.fn = "sign_transaction_with_core"
SignArgumentsRefused ==
    \/ rcall.args[1] = ""
    \/ rcall.args[3] = <<>>
    \/ \E i \in 1..Len(rcall.args[3]) :
           {"txid", "vout", "scriptPubKey", "amount"} \ DOMAIN rcall.args[3][i] # {}
SignAnsweredWithBoth ==
    /\ rcall.connect.ok
    /\ rcall.answer.ok
    /\ rcall.answer.value.is_dict
    /\ {"hex", "complete"} \subseteq DOMAIN rcall.answer.value.fields

C22_IncompleteIsNoError ==
    SignCalled =>
        LET r == rcall.call.result
        IN /\ SignArgumentsRefused =>
                  r.raised = "ValueError" /\ rcall.call.requests = <<>>
           /\ (~SignArgumentsRefused /\ SignAnsweredWithBoth) =>
                  /\ r.raised = "None"
                  /\ r.value = <<rcall.answer.value.fields.hex, rcall.answer.value.fields.complete>>
                  /\ Len(rcall.call.requests) = 1
                  /\ rcall.call.requests[1].method = "signrawtransactionwithkey"

\* The node answered complete = false together with a list of signing
\* errors, and the call returned the pair.
C22_Witness ==
    /\ SignCalled
    /\ ~SignArgumentsRefused
    /\ SignAnsweredWithBoth
    /\ "errors" \in DOMAIN rcall.answer.value.fields
    /\ rcall.answer.value.fields.complete = FALSE
    /\ rcall.call.result = Returned(<<"0200000001ab", FALSE>>)

\* ------------------------------------------------------------------------
\* C23: the size tx_builder.estimate_transaction_size returns, the one
\* select_utxos_for_amount multiplies by the rate, equals the size the fee
\* model (fee_estimator.estimate_transaction_size_bytes) gives for the same
\* input count, output count, input type and output type, for all arguments:
\* output types p2wpkh and p2sh and counts above 252 included.
\* ------------------------------------------------------------------------
C23_SameSizeAsFeeModel ==
    est.fn = "estimate_transaction_size" =>
        est.result = estimate_transaction_size_bytes(
                         fee_args.num_inputs, fee_args.num_outputs,
                         fee_args.input_type, fee_args.output_type)

\* ------------------------------------------------------------------------
\* C24: the list select_utxos_for_amount returns is a prefix of the caller's
\* UTXOs in descending order of satoshi amount, equal amounts in their
\* original order; it is the shortest such prefix whose total covers the
\* target plus rate x size(prefix length, 2 outputs), or the whole sorted
\* list when no prefix covers that.  (In this model a UTXO's txid is its
\* position in the caller's list.)
\* ------------------------------------------------------------------------
SortsBefore(i, j) ==
    \/ btc_to_satoshi(utxos[i].amount) > btc_to_satoshi(utxos[j].amount)
    \/ btc_to_satoshi(utxos[i].amount) = btc_to_satoshi(utxos[j].amount) /\ i < j
PrefixCovers(m) ==
    SumSats(SubSeq(sel.selected, 1, m)) >=
        btc_to_satoshi(amount_btc)
            + fee_rate * estimate_transaction_size(m, 2, input_type, "p2pkh")

C24_ShortestSortedPrefix ==
    sel.raised = "None" =>
        LET s == sel.selected
            n == Len(s)
            chosen == {s[k].txid : k \in 1..n}
        IN /\ n \in 1..Len(utxos)
           /\ \A k \in 1..n :
                  /\ s[k].txid \in 1..Len(utxos)
                  /\ s[k].amount = utxos[s[k].txid].amount
                  /\ s[k].satoshi_amount = btc_to_satoshi(s[k].amount)
           /\ \A k \in 1..n : \A l \in (k + 1)..n : SortsBefore(s[k].txid, s[l].txid)
           /\ \A k \in 1..n : \A j \in (1..Len(utxos)) \ chosen : SortsBefore(s[k].txid, j)
           /\ PrefixCovers(n) \/ n = Len(utxos)
           /\ \A m \in 1..(n - 1) : ~PrefixCovers(m)

\* Two UTXOs of the same amount, the second of which is not needed: the
\* selection is the first one, by the tie rule alone.
C24_Witness ==
    /\ sel.raised = "None"
    /\ Len(utxos) = 2
    /\ btc_to_satoshi(utxos[1].amount) = btc_to_satoshi(utxos[2].amount)
    /\ Len(sel.selected) = 1
    /\ sel.selected[1].txid = 1

\* ------------------------------------------------------------------------
\* C25: select_utxos_for_amount and create_raw_transaction leave the
\* caller's UTXO list and every record in it as they were, whether they
\* return or raise: same length, same order, same entries; satoshi_amount is
\* added only to the copies in the selection select returns, and
\* create_raw_transaction changes nothing in the list it is given.
\* ------------------------------------------------------------------------
C25_CallerListUnchanged ==
    [][ /\ utxos' = utxos
        /\ tx' # tx => sel' = sel
        /\ (sel' # sel /\ sel'.raised = "None") =>
               \A k \in 1..Len(sel'.selected) :
                   /\ "satoshi_amount" \in sel'.selected[k].keys
                   /\ "satoshi_amount" \notin utxos'[sel'.selected[k].txid].keys ]_vars

\* Select has returned a selection and create_raw_transaction has built from
\* it, with the caller's list still unannotated.
C25_Witness ==
    /\ sel.raised = "None"
    /\ tx.call = "selected"
    /\ tx.result.raised = "None"
    /\ Len(utxos) = 2
    /\ \A i \in 1..Len(utxos) : utxos[i].keys = REQUIRED_UTXO_KEYS

\* Select has raised on the second record, after copying the first.
C25_WitnessFailure ==
    /\ sel.raised = "ValueError"
    /\ sel.reason = "MalformedUtxo"
    /\ sel.detail = 1
    /\ utxos[1].keys = REQUIRED_UTXO_KEYS

\* ------------------------------------------------------------------------
\* storage/database.py: the SQLite file with the tables keys and
\* transactions.  ledger.initialized says whether initialize_db has created
\* the tables; a table is the sequence of its rows in insertion order, the
\* id column being AUTOINCREMENT.  A nullable column holds <<>> for NULL and
\* <<v>> for the value v.  The timestamp columns are left out.
\* ------------------------------------------------------------------------
HasRow(table, column, value) == \E i \in 1..Len(table) : table[i][column] = value
RowOf(table, column, value) == table[CHOOSE i \in 1..Len(table) : table[i][column] = value]

\* INSERT INTO keys ...: refused by the missing table, or by UNIQUE(address).
\* Faulty variant: INSERT OR REPLACE, the new row takes the place of the old.
KeysInsert_Replace(db, row) ==
    IF ~db.initialized THEN [db |-> db, error |-> "OperationalError"]
    ELSE [db |-> [db EXCEPT !.keys =
                     IF HasRow(db.keys, "address", row.address)
                     THEN [i \in 1..Len(db.keys) |->
                              IF db.keys[i].address = row.address
                              THEN [row EXCEPT !.id = db.keys[i].id] ELSE db.keys[i]]
                     ELSE Append(db.keys, [row EXCEPT !.id = Len(db.keys) + 1])],
          error |-> "None"]
KeysInsert(db, row) ==
    IF ~db.initialized THEN [db |-> db, error |-> "OperationalError"]
    ELSE IF HasRow(db.keys, "address", row.address) THEN [db |-> db, error |-> "IntegrityError"]
    ELSE [db |-> [db EXCEPT !.keys = Append(db.keys, [row EXCEPT !.id = Len(db.keys) + 1])],
          error |-> "None"]

\* INSERT INTO transactions ...: refused by the missing table, or by UNIQUE(txid).
TransactionsInsert(db, row) ==
    IF ~db.initialized THEN [db |-> db, error |-> "OperationalError"]
    ELSE IF HasRow(db.transactions, "txid", row.txid) THEN [db |-> db, error |-> "IntegrityError"]
    ELSE [db |-> [db EXCEPT !.transactions =
                     Append(db.transactions, [row EXCEPT !.id = Len(db.transactions) + 1])],
          error |-> "None"]

\* The except clauses of the two add functions: IntegrityError is logged and
\* swallowed, any other sqlite3.Error is logged and raised again.
AddOutcome(r) ==
    [db |-> r.db,
     result |-> IF r.error \in {"None", "IntegrityError"}
                THEN Returned(<<>>)
                ELSE Raised(r.error, "SqliteError", 0)]

add_key_record(db, address, network, address_type, wif_filename, label) ==
    AddOutcome(KeysInsert(db, [id |-> 0, address |-> address, wif_filename |-> wif_filename,
                               label |-> label, network |-> network,
                               address_type |-> address_type]))

\* amount_btc_str: str() of a Decimal, a str as it is.  An amount is
\* <<"Decimal", d>> or <<"str", d>> for the number d in units of 1/SubSat satoshi.
AmountStr(amount) == <<"str", amount[2]>>

add_transaction_record(db, txid, amount, fee_sats, recipient_address, status, notes) ==
    AddOutcome(TransactionsInsert(db, [id |-> 0, txid |-> txid, amount_btc |-> AmountStr(amount),
                                       fee_sats |-> fee_sats,
                                       recipient_address |-> recipient_address,
                                       status |-> status, notes |-> notes]))

\* UPDATE table SET column = value WHERE key_column = key; True when a row
\* was changed, False when none matched.
UpdateColumn(db, table, key_column, key, column, value) ==
    IF ~db.initialized
    THEN [db |-> db, result |-> Raised("OperationalError", "SqliteError", 0)]
    ELSE [db |-> [db EXCEPT ![table] =
                     [i \in 1..Len(db[table]) |->
                         IF db[table][i][key_column] = key
                         THEN [db[table][i] EXCEPT ![column] = value] ELSE db[table][i]]],
          result |-> Returned(HasRow(db[table], key_column, key))]

update_key_label(db, address, new_label) ==
    UpdateColumn(db, "keys", "address", address, "label", <<new_label>>)
update_transaction_status(db, txid, new_status) ==
    UpdateColumn(db, "transactions", "txid", txid, "status", new_status)

\* SELECT * ... WHERE key_column = key, fetchone(): <<>> for None (also when
\* the query fails, which is logged only), <<row>> for the row.
FetchOne(db, table, key_column, key) ==
    IF db.initialized /\ HasRow(db[table], key_column, key)
    THEN <<RowOf(db[table], key_column, key)>>
    ELSE <<>>

get_key_by_address(db, address) == Returned(FetchOne(db, "keys", "address", address))
\* The amount column comes back through Decimal().
get_transaction_by_txid(db, txid) ==
    LET row == FetchOne(db, "transactions", "txid", txid)
    IN Returned(IF row = <<>> THEN <<>>
                ELSE <<[row[1] EXCEPT !.amount_btc = <<"Decimal", @[2]>>]>>)

initialize_db(db) == [db EXCEPT !.initialized = TRUE]

\* The calls of the module's own test run, and a second writer's record for
\* an address and a txid already taken.
KeyRecordArgs ==
    { <<"testaddr1", "testnet", "p2wpkh", <<"mywallet.dat">>, <<"Test Key 1">> >>,
      <<"testaddr2", "mainnet", "p2pkh", <<"mywallet.dat">>, <<"Savings">> >>,
      <<"testaddr1", "testnet", "p2wpkh", <<"mywallet.dat">>, <<"Test Key 1 Duplicate">> >>,
      <<"testaddr1", "mainnet", "p2pkh", <<>>, <<>> >> }
Addresses == {a[1] : a \in KeyRecordArgs} \cup {"testaddr3"}
KeyLabels == {"My Primary Test Key"}
TransactionRecordArgs ==
    { <<"txid_example_123", <<"Decimal", BTC(50000000, 0)>>, 5000, "recipient_addr_1", "broadcasted", <<"Sent to friend">> >>,
      <<"txid_example_456", <<"str", BTC(123400000, 0)>>, 12000, "recipient_addr_2", "confirmed", <<"Payment for goods">> >>,
      <<"txid_example_123", <<"Decimal", BTC(50000000, 0)>>, 5000, "recipient_addr_1", "broadcasted", <<"Duplicate TX">> >>,
      <<"txid_example_123", <<"str", BTC(70000000, 0)>>, 900, "recipient_addr_2", "failed", <<>> >> }
LedgerTxids == {a[1] : a \in TransactionRecordArgs} \cup {"txid_unknown"}
TransactionStatuses == {"confirmed (6+)"}

InitLedger == NoSend /\ NoSecret /\ NoKeyCalls /\ NoRemote

InitializeDb ==
    /\ ledger' = initialize_db(ledger)
    /\ lcall' = [fn |-> "initialize_db", args |-> <<>>, result |-> Returned(<<>>)]
    /\ UNCHANGED <<wallet, custody, rcall, procs>>

LedgerCall(fn, args, outcome) ==
    /\ ledger' = outcome.db
    /\ lcall' = [fn |-> fn, args |-> args, result |-> outcome.result]
    /\ UNCHANGED <<wallet, custody, rcall, procs>>

LedgerQuery(fn, args, result) ==
    /\ lcall' = [fn |-> fn, args |-> args, result |-> result]
    /\ UNCHANGED <<wallet, custody, rcall, procs, ledger>>

AddKeyRecord(a) ==
    LedgerCall("add_key_record", a, add_key_record(ledger, a[1], a[2], a[3], a[4], a[5]))
UpdateKeyLabel(address, new_label) ==
    LedgerCall("update_key_label", <<address, new_label>>, update_key_label(ledger, address, new_label))
GetKeyByAddress(address) ==
    LedgerQuery("get_key_by_address", <<address>>, get_key_by_address(ledger, address))
AddTransactionRecord(a) ==
    LedgerCall("add_transaction_record", a, add_transaction_record(ledger, a[1], a[2], a[3], a[4], a[5], a[6]))
UpdateTransactionStatus(txid, new_status) ==
    LedgerCall("update_transaction_status", <<txid, new_status>>, update_transaction_status(ledger, txid, new_status))
GetTransactionByTxid(txid) ==
    LedgerQuery("get_transaction_by_txid", <<txid>>, get_transaction_by_txid(ledger, txid))

NextLedger ==
    \/ InitializeDb
    \/ \E a \in KeyRecordArgs : AddKeyRecord(a)
    \/ \E address \in Addresses, l \in KeyLabels : UpdateKeyLabel(address, l)
    \/ \E address \in Addresses : GetKeyByAddress(address)
    \/ \E a \in TransactionRecordArgs : AddTransactionRecord(a)
    \/ \E txid \in LedgerTxids, st \in TransactionStatuses : UpdateTransactionStatus(txid, st)
    \/ \E txid \in LedgerTxids : GetTransactionByTxid(txid)

SpecLedger == InitLedger /\ [][NextLedger]_vars

\* ------------------------------------------------------------------------
\* C26: add_key_record for an address that already has a row, and
\* add_transaction_record for a txid that already has one, add nothing,
\* leave the whole ledger as it was and return without raising; every
\* ledger operation leaves every existing row in the table, under its
\* address / txid; and a table never holds two rows for one address or one
\* txid.
\* ------------------------------------------------------------------------
OneRowPer(table, column) ==
    \A i \in 1..Len(table) : \A j \in 1..Len(table) :
        table[i][column] = table[j][column] => i = j
RowsKept(before, after, column) ==
    /\ Len(after) >= Len(before)
    /\ \A i \in 1..Len(before) : after[i][column] = before[i][column]

C26_FirstWriteWins ==
    [][ /\ (lcall'.fn = "add_key_record" /\ HasRow(ledger.keys, "address", lcall'.args[1])) =>
               ledger' = ledger /\ lcall'.result.raised = "None"
        /\ (lcall'.fn = "add_transaction_record" /\ HasRow(ledger.transactions, "txid", lcall'.args[1])) =>
               ledger' = ledger /\ lcall'.result.raised = "None"
        /\ RowsKept(ledger.keys, ledger'.keys, "address")
        /\ RowsKept(ledger.transactions, ledger'.transactions, "txid")
        /\ OneRowPer(ledger'.keys, "address")
        /\ OneRowPer(ledger'.transactions, "txid") ]_vars

\* The test run's case: the record of testaddr1 was written, a second
\* add_key_record for testaddr1 with another label has just returned, and the
\* row still carries the first label.
C26_Witness ==
    /\ lcall.fn = "add_key_record"
    /\ lcall.args = <<"testaddr1", "testnet", "p2wpkh", <<"mywallet.dat">>, <<"Test Key 1 Duplicate">> >>
    /\ lcall.result.raised = "None"
    /\ HasRow(ledger.keys, "address", "testaddr1")
    /\ RowOf(ledger.keys, "address", "testaddr1").label = <<"Test Key 1">>
    /\ HasRow(ledger.transactions, "txid", "txid_example_123")

\* ------------------------------------------------------------------------
\* Saving again on the same path, with other key data or another password.
\* ------------------------------------------------------------------------
\* with open(filepath, 'wb') as f: f.write(encrypted_data) - the file is
\* created or emptied by the open, the data written from its start.
\* Faulty variant: the file is opened for appending.
WriteBinary_Append(contents, data) == contents \o data
WriteBinary(contents, data) == data

InitResave == NoSend /\ NoSecret /\ NoKeyCalls /\ NoRemote

\* save_encrypted_key(key_data, password, filepath); key_data and
\* key_password keep the arguments of the most recent save.
SaveAs(data, password, aliases) ==
    /\ Len(issued) < MaxEncrypts
    /\ issued' = Append(issued, Issue(data, password, aliases))
    /\ file' = WriteBinary(file, Issue(data, password, aliases).container)
    /\ file_exists' = TRUE
    /\ key_data' = data
    /\ key_password' = password
    /\ kcall' = [fn |-> "save_encrypted_key"]
    /\ UNCHANGED <<wallet, remote>>

NextResave ==
    \/ \E d \in KeyDatas, p \in Passwords, a \in AliasLayouts : SaveAs(d, p, a)
    \/ \E p \in Passwords : Load(p)

SpecResave == InitResave /\ [][NextResave]_vars

\* ------------------------------------------------------------------------
\* C27: after any sequence of save_encrypted_key calls on one path the file
\* holds exactly the container of the most recent save; load_encrypted_key
\* with that save's password returns exactly that save's key data, and load
\* with the password of an earlier save, when it differs, fails.
\* ------------------------------------------------------------------------
LastSave == issued[Len(issued)]
LoadedAfterSaves == kcall.fn = "load_encrypted_key" /\ kcall.path_exists

C27_LastSaveWins ==
    /\ file_exists <=> issued # <<>>
    /\ file_exists => file = LastSave.container
    /\ LoadedAfterSaves =>
          /\ kcall.password = LastSave.password =>
                 /\ kcall.result.raised = "None"
                 /\ kcall.result.data = LastSave.data
          /\ \A i \in 1..(Len(issued) - 1) :
                 (issued[i].password # LastSave.password /\ kcall.password = issued[i].password) =>
                     /\ kcall.result.raised = "ValueError"
                     /\ "data" \notin DOMAIN kcall.result

\* Two saves with different key data and different passwords, then a load
\* with the second password: it returns the second key data.
C27_Witness ==
    /\ Len(issued) = 2
    /\ issued[1].data # issued[2].data
    /\ issued[1].password # issued[2].password
    /\ LoadedAfterSaves
    /\ kcall.password = issued[2].password
    /\ kcall.result.raised = "None"
    /\ kcall.result.data = issued[2].data

\* The same two saves, then a load with the first password: it fails.
C27_WitnessEarlierPassword ==
    /\ Len(issued) = 2
    /\ issued[1].password # issued[2].password
    /\ LoadedAfterSaves
    /\ kcall.password = issued[1].password
    /\ kcall.result.raised = "ValueError"

\* ------------------------------------------------------------------------
\* C28: with a fee rate >= 0, the fee create_raw_transaction returns is at
\* least rate x the estimated size of the transaction as it was built (its
\* number of inputs and of outputs), and it exceeds rate x size(number of
\* inputs, 2 outputs) by less than 546 satoshis.
\* ------------------------------------------------------------------------
SizeAsBuilt ==
    estimate_transaction_size(Len(tx.result.tx.inputs), Len(tx.result.tx.outputs),
                              input_type, "p2pkh")
TwoOutputFee ==
    fee_rate * estimate_transaction_size(Len(tx.result.tx.inputs), 2, input_type, "p2pkh")

C28_FeeBounds ==
    (TxReturned /\ fee_rate >= 0) =>
        /\ tx.result.fee >= fee_rate * SizeAsBuilt
        /\ tx.result.fee - TwoOutputFee < 546

\* Both bounds are met with nothing to spare: a transaction with a change
\* output, whose fee is exactly rate x size as built, and (C28_WitnessDust)
\* one whose fee is the two-output estimate plus a leftover of 545.
C28_Witness ==
    /\ TxReturned
    /\ fee_rate > 0
    /\ Len(tx.result.tx.outputs) = 2
    /\ tx.result.fee = fee_rate * SizeAsBuilt

C28_WitnessDust ==
    /\ TxReturned
    /\ fee_rate > 0
    /\ Len(tx.result.tx.outputs) = 1
    /\ tx.result.fee = TwoOutputFee + 545

\* ------------------------------------------------------------------------
\* The same pipeline when the caller's fee rate may be any integer: neither
\* function looks at the sign of the rate or of the amount.
\* ------------------------------------------------------------------------
SignedFeeRates == (0 - MaxRate)..MaxRate

InitAnyRate ==
    /\ utxos \in UtxoLists
    /\ fee_rate \in SignedFeeRates
    /\ input_type \in InputTypes
    /\ amount_btc \in SendAmounts(utxos, fee_rate, input_type)
    /\ sel = NotCalled
    /\ tx = [call |-> "none", env |-> <<>>, result |-> NotCalled]
    /\ fee_args = FeeArgs(1, 2, "p2wpkh", "p2pkh", <<>>)
    /\ est = [fn |-> "none"]
    /\ NoSecret
    /\ NoKeyCalls
    /\ NoRemote

SpecAnyRate == InitAnyRate /\ [][Next]_vars

\* ------------------------------------------------------------------------
\* C29: for any integer fee rate and any amount create_raw_transaction
\* accepts, a returned transaction has a fee >= 0, a recipient output worth
\* more than 0, and outputs that sum to no more than its inputs.
\* ------------------------------------------------------------------------
C29_FeeAndOutputsSane ==
    TxReturned =>
        /\ tx.result.fee >= 0
        /\ tx.result.tx.outputs[1].value > 0
        /\ TxOutputTotal <= TxInputTotal

\* ------------------------------------------------------------------------
\* save_encrypted_key and load_encrypted_key running at once on one path.
\* Each call is a process of procs.  A save encrypts, opens the file with
\* 'wb' (which creates or empties it) and, at the close of the with block,
\* writes its container from offset 0 in one write.  A load tests that the
\* path exists, then reads: f.read() asks the file for bytes until a read
\* returns none, each read giving bytes that are in the file at that
\* moment from the reader's own position on; then it decrypts what it got.
\* ------------------------------------------------------------------------
Savers == {1, 2}
Loader == 3

SaverStart(data, password) ==
    [op |-> "save", pc |-> "encrypt", data |-> data, password |-> password, buf |-> <<>>]
LoaderStart(password) ==
    [op |-> "load", pc |-> "exists", password |-> password, pos |-> 0, buf |-> <<>>,
     overlapped |-> FALSE, result |-> NotCalled]

\* write() of data at offset 0: the bytes beyond the data stay.
WriteAtStart(contents, data) == data \o SubSeq(contents, Len(data) + 1, Len(contents))

\* A load that has tested the path and not yet decrypted sees a save's step.
Reading(q) == q.op = "load" /\ q.pc = "read"
NoteOverlap(ps) ==
    [q \in DOMAIN ps |-> IF Reading(ps[q]) THEN [ps[q] EXCEPT !.overlapped = TRUE] ELSE ps[q]]

InitConcurrent ==
    /\ NoSend
    /\ NoSecret
    /\ NoKeyCalls
    /\ rcall = [fn |-> "none"]
    /\ ledger = [initialized |-> FALSE, keys |-> <<>>, transactions |-> <<>>]
    /\ lcall = [fn |-> "none"]
    /\ procs \in {<<SaverStart(d1, p1), SaverStart(d2, p2), LoaderStart(p3)>> :
                     d1 \in KeyDatas, p1 \in Passwords, d2 \in KeyDatas,
                     p2 \in Passwords, p3 \in Passwords}

\* Line 119: encrypted_data = encrypt_key_data(key_data, password)
SaveEncryptStep(p, aliases) ==
    /\ procs[p].op = "save" /\ procs[p].pc = "encrypt"
    /\ issued' = Append(issued, Issue(procs[p].data, procs[p].password, aliases))
    /\ procs' = [procs EXCEPT ![p].pc = "open",
                              ![p].buf = Issue(procs[p].data, procs[p].password, aliases).container]
    /\ UNCHANGED <<wallet, secret, rcall, ledger, lcall, file_exists, file, kcall>>

\* Line 120: open(filepath, 'wb')
SaveOpenStep(p) ==
    /\ procs[p].op = "save" /\ procs[p].pc = "open"
    /\ file_exists' = TRUE
    /\ file' = <<>>
    /\ procs' = NoteOverlap([procs EXCEPT ![p].pc = "write"])
    /\ UNCHANGED <<wallet, secret, rcall, ledger, lcall, issued, kcall>>

\* Lines 120-121: f.write(encrypted_data), flushed when the with block closes f.
SaveWriteStep(p) ==
    /\ procs[p].op = "save" /\ procs[p].pc = "write"
    /\ file' = WriteAtStart(file, procs[p].buf)
    /\ procs' = NoteOverlap([procs EXCEPT ![p].pc = "done"])
    /\ kcall' = [fn |-> "save_encrypted_key"]
    /\ UNCHANGED <<wallet, secret, rcall, ledger, lcall, issued, file_exists>>

\* Lines 126-128: os.path.exists(filepath), then the raise or the open.
LoadExistsStep(p) ==
    /\ procs[p].op = "load" /\ procs[p].pc = "exists"
    /\ procs' = [procs EXCEPT ![p].pc = IF file_exists THEN "read" ELSE "done",
                              ![p].result = IF file_exists THEN NotCalled ELSE MissingFileError]
    /\ UNCHANGED <<wallet, secret, rcall, ledger, lcall, issued, file_exists, file, kcall>>

\* Line 129: one read of f.read().  The file is far smaller than the
\* reader's buffer, so a read gives all the bytes present beyond pos.
LoadReadStep(p) ==
    /\ procs[p].op = "load" /\ procs[p].pc = "read"
    /\ Len(file) > procs[p].pos
    /\ procs' = [procs EXCEPT ![p].buf = @ \o SubSeq(file, procs[p].pos + 1, Len(file)),
                              ![p].pos = Len(file)]
    /\ UNCHANGED <<wallet, secret, rcall, ledger, lcall, issued, file_exists, file, kcall>>

\* Lines 129-137: the read that returns nothing ends f.read(); then
\* decrypt_key_data and the except clause.
LoadDecryptStep(p) ==
    /\ procs[p].op = "load" /\ procs[p].pc = "read"
    /\ Len(file) <= procs[p].pos
    /\ procs' = [procs EXCEPT ![p].pc = "done",
                              ![p].result = load_encrypted_key(TRUE, procs[p].buf, procs[p].password).result]
    /\ kcall' = [fn |-> "load_encrypted_key", password |-> procs[p].password,
                 path_exists |-> TRUE,
                 result |-> load_encrypted_key(TRUE, procs[p].buf, procs[p].password).result,
                 steps |-> load_encrypted_key(TRUE, procs[p].buf, procs[p].password).steps]
    /\ UNCHANGED <<wallet, secret, rcall, ledger, lcall, issued, file_exists, file>>

NextConcurrent ==
    \/ \E p \in Savers, a \in AliasLayouts : SaveEncryptStep(p, a)
    \/ \E p \in Savers : SaveOpenStep(p)
    \/ \E p \in Savers : SaveWriteStep(p)
    \/ LoadExistsStep(Loader)
    \/ LoadReadStep(Loader)
    \/ LoadDecryptStep(Loader)

SpecConcurrent == InitConcurrent /\ [][NextConcurrent]_vars

\* ------------------------------------------------------------------------
\* C30: when load_encrypted_key runs while one or more save_encrypted_key
\* calls work on the same path, with the emptying of the file, the writes
\* and the reads in any order, the load either fails or returns key data
\* that one of the saves was given together with the load's password; it
\* never returns data no save supplied.
\* ------------------------------------------------------------------------
LoadFinished == procs # <<>> /\ procs[Loader].pc = "done"
LoadResult == procs[Loader].result

C30_LoadReturnsSavedData ==
    LoadFinished =>
        \/ LoadResult.raised \in {"ValueError", "FileNotFoundError"}
        \/ /\ LoadResult.raised = "None"
           /\ \E q \in Savers :
                  /\ procs[q].password = procs[Loader].password
                  /\ procs[q].data = LoadResult.data

\* Some byte of what was read comes from another container than the first.
MixedRead ==
    \E i \in 1..Len(procs[Loader].buf) :
        procs[Loader].buf[i].src[Len(procs[Loader].buf[i].src)]
            # procs[Loader].buf[1].src[Len(procs[Loader].buf[1].src)]

\* A load that overlapped with saves and still returned key data: it read
\* the second save's container after the first save's file was emptied.
C30_Witness ==
    /\ LoadFinished
    /\ procs[Loader].overlapped
    /\ LoadResult.raised = "None"
    /\ Len(issued) = 2
    /\ procs[Loader].buf = issued[2].container
    /\ procs[1].data # procs[2].data

\* A load that read parts of two containers: it fails.
C30_WitnessMixed ==
    /\ LoadFinished
    /\ MixedRead
    /\ Len(procs[Loader].buf) > SALT_LEN + TokenLen
    /\ LoadResult.raised = "ValueError"

====
